---- MODULE Spec2Model ----
(***************************************************************************)
(* State-machine model of the q2lua scripting subsystem:                   *)
(*   - the entity pool (G_Spawn / G_InitEdict / G_FreeEdict, g_utils)      *)
(*   - generation-stamped entity handles (script_push_entity,              *)
(*     script_check_entity)                                                *)
(*   - the entity member functions a script can call                       *)
(*   - the trigger-context stack and the func_script use callback          *)
(*   - the delayed trigger / kill / message helper entities                *)
(*   - the save codec (script_get_variables / script_set_variables)        *)
(* Source: src/rerelease/func_script.cpp and src/unnamed/part_001.         *)
(***************************************************************************)
EXTENDS Integers, Sequences, FiniteSets, TLC

\* ------------------------------------------------------------------------
\* Bounds of the model
\* ------------------------------------------------------------------------
\* game.maxentities: size of the g_edicts array
MaxEntities == 5
\* cap on a slot's spawn_count (number of frees of one slot)
MaxSpawnCount == 2
\* cap on the number of Tick steps
MaxTicks == 1
\* cap on the number of nested func_script_use invocations
MaxDepth == 3
\* latest level.time, in milliseconds, of the entity pool's specification
MaxLevelTime == 3200
\* entries the string pool list starts with and grows by (256 in the source)
script_stringpool_starter == 2

\* ------------------------------------------------------------------------
\* Program constants
\* ------------------------------------------------------------------------
\* 2_sec: G_Spawn reuses any free slot while level.time is below it
EarlyMs == 2000
\* 500_ms: a freed slot is not reused before this much time has passed
ReuseMs == 500
\* game.maxclients: slots 1 .. maxclients are the players (a single-player game)
maxclients == 1
\* the body-queue slots that follow the players; the model keeps one of them
BODY_QUEUE_SIZE == 1
\* sizeof(struct script_ud_ent_t), a pointer and an int32_t with its padding,
\* and sizeof(struct script_ud_ent_t*), in bytes on the 64-bit builds of the
\* game (8 and 4 on a 32-bit build)
sizeof_script_ud_ent_t == 16
sizeof_script_ud_ent_ptr == 8

\* level.time advances in steps of one second
TickMs == 2 * ReuseMs

NULL == -1
Slots == 0 .. (MaxEntities - 1)

\* indices <= maxclients + BODY_QUEUE_SIZE are never freed by G_FreeEdict
LastSpecial == maxclients + BODY_QUEUE_SIZE

\* names a func_script entity can carry in script_function:
\* "f" is bound to a function by the level script, "t" to a table, "u" to nothing
FuncNames == {"f", "t", "u"}

VARIABLES
    g_edicts,            \* the entity array: slot -> edict record
    num_edicts,          \* globals.num_edicts
    spawn_pos,           \* spawn bookmark
    despawn_valid,       \* despawn bookmark is set
    despawn_time,        \* freetime of the bookmarked slot
    despawn_pos,         \* index of the bookmarked slot
    level_time,          \* level.time in milliseconds
    script_loaded,       \* a level script is loaded
    script_globals,      \* registry "script_globals": name -> value bound to it
    lua_tables,          \* the tables the level script has made, by identity
    script_stringpool_list,  \* the first script_stringpool_count entries of the list
    script_stringpool_size,  \* capacity of the list
    interned,            \* the calls of script_stringpool_add since the last load
    script_vars,         \* registry "script_vars": key -> value
    script_persistent,   \* registry "script_persistent": key -> value
    script_triggerstack, \* registry "script_triggerstack": sequence of frames
    callstack,           \* func_script_use invocations whose script function is running
    saved,               \* mapping produced by script_get_variables, kept by the save system
    event                \* what the last step did, as seen from outside

poolVars == <<g_edicts, num_edicts, spawn_pos, despawn_valid, despawn_time, despawn_pos>>
stringpoolVars == <<script_stringpool_list, script_stringpool_size, interned>>
vars == <<g_edicts, num_edicts, spawn_pos, despawn_valid, despawn_time, despawn_pos,
          level_time, script_loaded, script_globals, lua_tables, script_stringpool_list,
          script_stringpool_size, interned, script_vars, script_persistent,
          script_triggerstack, callstack, saved, event>>

\* ------------------------------------------------------------------------
\* Entity pool (src/unnamed/part_001)
\* ------------------------------------------------------------------------

\* an edict after memset(ed, 0, sizeof(*ed))
ZeroEdict ==
    [inuse |-> FALSE, spawn_count |-> 0, classname |-> "", freetime |-> 0,
     nextthink |-> 0, think |-> "none", use |-> "none", svflags |-> "none",
     script_function |-> "", target_ent |-> NULL, count |-> 0, activator |-> NULL,
     message |-> NULL, scheduled_for |-> 0, activator_for |-> 0]

\* the pool as one record, so that the pool functions compose
Pool ==
    [edicts |-> g_edicts, num_edicts |-> num_edicts, spawn_pos |-> spawn_pos,
     despawn_valid |-> despawn_valid, despawn_time |-> despawn_time,
     despawn_pos |-> despawn_pos, e |-> NULL, ok |-> TRUE]

\* variant: the slot is cleared as a whole when it is taken into use
G_InitEdict_Cleared(ed) ==
    [ed EXCEPT !.nextthink = 0, !.inuse = TRUE, !.classname = "noclass", !.spawn_count = 0]

G_InitEdict(ed) ==
    [ed EXCEPT !.nextthink = 0, !.inuse = TRUE, !.classname = "noclass"]

\* the for loop of G_Spawn, from p.spawn_pos on
RECURSIVE G_SpawnScan(_, _)
G_SpawnScan(p, now) ==
    LET early == now < EarlyMs
        pos   == p.spawn_pos
    IN  IF pos < p.num_edicts
        THEN IF ~p.edicts[pos].inuse
             THEN IF early \/ now - p.edicts[pos].freetime > ReuseMs
                  THEN [p EXCEPT !.edicts[pos] = G_InitEdict(@), !.e = pos]
                  ELSE IF ~p.despawn_valid
                       THEN G_SpawnScan([p EXCEPT !.despawn_pos = pos,
                                                  !.despawn_time = p.edicts[pos].freetime,
                                                  !.despawn_valid = TRUE,
                                                  !.spawn_pos = pos + 1], now)
                       ELSE G_SpawnScan([p EXCEPT !.spawn_pos = pos + 1], now)
             ELSE G_SpawnScan([p EXCEPT !.spawn_pos = pos + 1], now)
        ELSE IF pos = MaxEntities
             THEN [p EXCEPT !.ok = FALSE]   \* gi.Com_Error("ED_Alloc: no free edicts")
             ELSE [p EXCEPT !.num_edicts = @ + 1,
                            !.edicts[pos] = G_InitEdict(@), !.e = pos]

\* variant: the bookmark stays valid after its slot has been used
G_Spawn_KeepsBookmark(p, now) ==
    LET early == now < EarlyMs
    IN  IF p.despawn_valid /\ (early \/ now - p.despawn_time > ReuseMs)
        THEN [p EXCEPT !.spawn_pos = IF @ > p.despawn_pos THEN p.despawn_pos ELSE @,
                       !.edicts[p.despawn_pos] = G_InitEdict(@),
                       !.e = p.despawn_pos]
        ELSE G_SpawnScan([p EXCEPT !.spawn_pos = @ + 1], now)

G_Spawn(p, now) ==
    LET early == now < EarlyMs
    IN  IF p.despawn_valid /\ (early \/ now - p.despawn_time > ReuseMs)
        THEN [p EXCEPT !.despawn_valid = FALSE,
                       !.spawn_pos = IF @ > p.despawn_pos THEN p.despawn_pos ELSE @,
                       !.edicts[p.despawn_pos] = G_InitEdict(@),
                       !.e = p.despawn_pos]
        ELSE G_SpawnScan([p EXCEPT !.spawn_pos = @ + 1], now)

\* variant: the slot is cleared without the spawn_count being advanced
G_FreeEdict_SameCount(p, ed, now) ==
    IF ~p.edicts[ed].inuse \/ ed <= LastSpecial
    THEN p
    ELSE [p EXCEPT !.edicts[ed] = [ZeroEdict EXCEPT !.classname = "freed",
                                                    !.freetime = now,
                                                    !.spawn_count = p.edicts[ed].spawn_count],
                   !.despawn_pos = IF ~p.despawn_valid \/ ed < @ THEN ed ELSE @,
                   !.despawn_time = IF ~p.despawn_valid \/ ed < p.despawn_pos THEN now ELSE @,
                   !.despawn_valid = TRUE]

G_FreeEdict(p, ed, now) ==
    IF ~p.edicts[ed].inuse
    THEN p
    ELSE IF ed <= LastSpecial
    THEN p
    ELSE LET freed == [p EXCEPT !.edicts[ed] =
                          [ZeroEdict EXCEPT !.classname = "freed",
                                            !.freetime = now,
                                            !.spawn_count = p.edicts[ed].spawn_count + 1]]
         IN  IF p.despawn_valid
             THEN IF ed < p.despawn_pos
                  THEN [freed EXCEPT !.despawn_pos = ed, !.despawn_time = now]
                  ELSE freed
             ELSE [freed EXCEPT !.despawn_pos = ed, !.despawn_time = now,
                                !.despawn_valid = TRUE]

\* G_Spawn_Reset followed by the spawning of the world, the players and the body queue
InitialEdict(s) ==
    IF s = 0 THEN [ZeroEdict EXCEPT !.inuse = TRUE, !.classname = "worldspawn"]
    ELSE IF s <= maxclients
    THEN [ZeroEdict EXCEPT !.inuse = TRUE, !.classname = "player", !.svflags = "player"]
    ELSE IF s <= LastSpecial
    THEN [ZeroEdict EXCEPT !.inuse = TRUE, !.classname = "bodyque"]
    ELSE ZeroEdict

\* ------------------------------------------------------------------------
\* Entity handles (src/rerelease/func_script.cpp)
\* ------------------------------------------------------------------------

\* script_ud_ent_t{ent, spawn_count}; the other fields are history kept for the
\* properties: wrapInuse/wrapGen are the slot's inuse and spawn_count when the
\* handle was made, origin tells which code made it, and freed tells whether
\* G_FreeEdict has freed the slot since then; size is the number of bytes of
\* the userdata block the handle was allocated with
\* variant: the stamp is the slot's spawn_count whether or not the slot is in use
script_push_entity_Plain(edicts, ent) ==
    [ent |-> ent, spawn_count |-> edicts[ent].spawn_count,
     wrapInuse |-> edicts[ent].inuse, wrapGen |-> edicts[ent].spawn_count,
     origin |-> "push", freed |-> FALSE, size |-> sizeof_script_ud_ent_t]

\* variant: the test of inuse is inverted
script_push_entity_Inverted(edicts, ent) ==
    [ent |-> ent,
     spawn_count |-> IF edicts[ent].inuse THEN edicts[ent].spawn_count - 1
                     ELSE edicts[ent].spawn_count,
     wrapInuse |-> edicts[ent].inuse, wrapGen |-> edicts[ent].spawn_count,
     origin |-> "push", freed |-> FALSE, size |-> sizeof_script_ud_ent_t]

script_push_entity(edicts, ent) ==
    [ent |-> ent,
     spawn_count |-> IF edicts[ent].inuse THEN edicts[ent].spawn_count
                     ELSE edicts[ent].spawn_count - 1,
     wrapInuse |-> edicts[ent].inuse,
     wrapGen |-> edicts[ent].spawn_count,
     origin |-> "push",
     freed |-> FALSE,
     size |-> sizeof_script_ud_ent_t]

\* script_check_entity: the entity, or NULL when the stamp differs
script_check_entity(edicts, ud) ==
    IF edicts[ud.ent].spawn_count # ud.spawn_count THEN NULL ELSE ud.ent

Stale(edicts, ud) == script_check_entity(edicts, ud) = NULL

\* the messages of the errors the engine raises
Err ==
    [invalid |-> "entity reference is no longer valid",
     readonly |-> "attempt to set a read-only value",
     key |-> "string expected",
     vars_type |-> "invalid type: must be nil, number, boolean, string, or entity",
     persistent_type |-> "invalid type: must be nil, number, boolean, or string",
     index |-> "attempt to index a non-table value",
     script_name |-> "name cannot be 'script'",
     existing_name |-> "used existing name",
     self_trigger |-> "func_script triggered itself with no delay"]


\* history bookkeeping of one handle over a step that changes the pool
TrackH(h, old, new) ==
    IF old[h.ent].inuse /\ ~new[h.ent].inuse
    THEN [h EXCEPT !.freed = TRUE]
    ELSE h

\* ------------------------------------------------------------------------
\* Script values and the variable table
\* ------------------------------------------------------------------------
\* a Lua table is a map whose domain is the set of keys with a non-nil value;
\* keys and strings are sequences of characters
EmptyTable == <<>>
TableSet(t, k, v) == [x \in (DOMAIN t) \cup {k} |-> IF x = k THEN v ELSE t[x]]
\* lua_rawset: storing nil removes the key
RawSet(t, k, v) == IF v.type = "nil" THEN [x \in (DOMAIN t) \ {k} |-> t[x]] ELSE TableSet(t, k, v)
\* keys the level script of this model uses
Keys == {<<"k">>}

NilVal == [type |-> "nil"]
UdVal(h) == [type |-> "userdata", ud |-> h]
\* a table value names a table of lua_tables; 0 is the API table script_init made
TblRef(id) == [type |-> "table", id |-> id]
ApiVal == TblRef(0)


TrackVars(sv, old, new) ==
    [k \in DOMAIN sv |-> IF sv[k].type = "userdata"
                         THEN UdVal(TrackH(sv[k].ud, old, new))
                         ELSE sv[k]]

TrackStack(cs, old, new) ==
    [i \in 1 .. Len(cs) |->
        [cs[i] EXCEPT !.args = [j \in 1 .. 3 |-> TrackH(cs[i].args[j], old, new)],
                      !.found = [j \in 1 .. Len(cs[i].found) |->
                                    TrackH(cs[i].found[j], old, new)]]]

\* every handle object the script can still reach
TableHandles(t) == {t[k].ud : k \in {x \in DOMAIN t : t[x].type = "userdata"}}
VarHandles == TableHandles(script_vars)
ArgHandles ==
    {callstack[i].args[j] : i \in 1 .. Len(callstack), j \in 1 .. 3}
    \cup UNION {{callstack[i].found[j] : j \in 1 .. Len(callstack[i].found)} :
                  i \in 1 .. Len(callstack)}
AllHandles == VarHandles \cup TableHandles(script_persistent) \cup ArgHandles

\* ------------------------------------------------------------------------
\* Trigger-context stack: a Lua table used as a list
\* ------------------------------------------------------------------------

\* luaL_len of the list
LuaLen(ts) == Len(ts)

\* lua_seti(L, -2, i) with a nil value
SetNil(ts, i) ==
    IF i = Len(ts) THEN SubSeq(ts, 1, i - 1)
    ELSE IF i < Len(ts) THEN [ts EXCEPT ![i] = [self |-> NULL, activator |-> NULL]]
    ELSE ts

\* ------------------------------------------------------------------------
\* Events
\* ------------------------------------------------------------------------
NoUse == [ent |-> NULL, other |-> NULL, activator |-> NULL]
UseOf(ent, other, activator) == [ent |-> ent, other |-> other, activator |-> activator]

\* op: the operation of the step; err: the script error it raised ("" if none);
\* use: the use callback it invoked; res: what else it did
Ev(op, err, use, res) == [op |-> op, err |-> err, use |-> use, res |-> res]

\* a step of the native game that the properties do not observe
NoEvent == Ev("", "", NoUse, "")

\* ------------------------------------------------------------------------
\* Text: strings are sequences of characters; NUL is the zero byte
\* ------------------------------------------------------------------------
NUL == "NUL"
DigitChars == <<"0", "1", "2", "3", "4", "5", "6", "7", "8", "9">>
IsDigit(c) == \E i \in 1 .. 10 : DigitChars[i] = c
AllDigits(s) == s # <<>> /\ \A i \in 1 .. Len(s) : IsDigit(s[i])

\* what a const char* names: the bytes before the first zero byte
CStr(s) ==
    IF \E i \in 1 .. Len(s) : s[i] = NUL
    THEN SubSeq(s, 1, (CHOOSE i \in 1 .. Len(s) :
                          s[i] = NUL /\ \A j \in 1 .. (i - 1) : s[j] # NUL) - 1)
    ELSE s

RECURSIVE Decimal(_)
Decimal(n) ==
    IF n < 10 THEN <<DigitChars[n + 1]>>
    ELSE Append(Decimal(n \div 10), DigitChars[(n % 10) + 1])

\* std::to_string of an integer, and the text of a Lua integer
to_string(n) == IF n < 0 THEN <<"-">> \o Decimal(0 - n) ELSE Decimal(n)

RECURSIVE DigitsValue(_)
DigitsValue(s) ==
    IF s = <<>> THEN 0
    ELSE DigitsValue(SubSeq(s, 1, Len(s) - 1)) * 10 + (CHOOSE i \in 0 .. 9 : DigitChars[i + 1] = s[Len(s)])

\* the longest prefix of s made of digits
RECURSIVE DigitPrefix(_)
DigitPrefix(s) ==
    IF s # <<>> /\ IsDigit(s[1]) THEN <<s[1]>> \o DigitPrefix(Tail(s)) ELSE <<>>

\* std::stoi for the texts of the model: an optional sign and the digits that
\* follow; ok is FALSE when there is no digit (std::invalid_argument is thrown)
stoi(s) ==
    LET neg == s # <<>> /\ s[1] = "-"
        d == DigitPrefix(IF neg THEN Tail(s) ELSE s)
    IN  IF d = <<>> THEN [ok |-> FALSE, n |-> 0]
        ELSE [ok |-> TRUE, n |-> IF neg THEN 0 - DigitsValue(d) ELSE DigitsValue(d)]

\* lua_stringtonumber for decimal integers: the whole text must be a numeral;
\* ok is FALSE when it is not (the function then pushes nothing)
lua_stringtonumber(s) ==
    IF AllDigits(s) THEN [ok |-> TRUE, n |-> DigitsValue(s)]
    ELSE IF s # <<>> /\ s[1] = "-" /\ AllDigits(Tail(s))
    THEN [ok |-> TRUE, n |-> 0 - DigitsValue(Tail(s))]
    ELSE [ok |-> FALSE, n |-> 0]

\* str.find_first_of(':'), 0 standing for npos
find_first_of_colon(s) ==
    IF \E i \in 1 .. Len(s) : s[i] = ":"
    THEN CHOOSE i \in 1 .. Len(s) : s[i] = ":" /\ \A j \in 1 .. (i - 1) : s[j] # ":"
    ELSE 0

\* str.substr(0, loc) and str.substr(loc + 1); with npos both are the whole text
str_type_of(s) ==
    LET loc == find_first_of_colon(s)
    IN  IF loc = 0 THEN s ELSE SubSeq(s, 1, loc - 1)
str_val_of(s) ==
    LET loc == find_first_of_colon(s)
    IN  IF loc = 0 THEN s ELSE SubSeq(s, loc + 1, Len(s))

Text ==
    [number |-> <<"n", "u", "m", "b", "e", "r">>,
     boolean |-> <<"b", "o", "o", "l", "e", "a", "n">>,
     string |-> <<"s", "t", "r", "i", "n", "g">>,
     entity |-> <<"e", "n", "t", "i", "t", "y">>,
     true |-> <<"t", "r", "u", "e">>,
     false |-> <<"f", "a", "l", "s", "e">>]

NumVal(n) == [type |-> "number", n |-> n]
BoolVal(b) == [type |-> "boolean", b |-> b]
StrVal(s) == [type |-> "string", s |-> s]

\* lua_typename of the value types a variable table can hold
lua_typename(v) ==
    IF v.type = "number" THEN Text.number
    ELSE IF v.type = "boolean" THEN Text.boolean
    ELSE Text.string

\* luaL_tolstring: the Lua string made for a number, a boolean or a string
luaL_tolstring(v) ==
    IF v.type = "number" THEN to_string(v.n)
    ELSE IF v.type = "boolean" THEN (IF v.b THEN Text.true ELSE Text.false)
    ELSE v.s

\* the encoding without the validity test: every handle is saved by its index
EncodeValue_AlwaysIndex(edicts, v) ==
    IF v.type = "userdata"
    THEN Text.entity \o <<":">> \o to_string(v.ud.ent)
    ELSE lua_typename(v) \o <<":">> \o CStr(luaL_tolstring(v))

\* the text script_get_variables stores for one value
EncodeValue(edicts, v) ==
    IF v.type = "userdata"
    THEN Text.entity \o <<":">> \o
         (IF ~edicts[v.ud.ent].inuse \/ edicts[v.ud.ent].spawn_count # v.ud.spawn_count
          THEN <<"-", "1">>
          ELSE to_string(v.ud.ent))
    ELSE lua_typename(v) \o <<":">> \o CStr(luaL_tolstring(v))

\* the handle script_set_variables makes for a negative entity index. The
\* userdata is allocated with sizeof(struct script_ud_ent_t*), so the write of
\* spawn_count lands past the end of the block and what a later read of it
\* yields is not defined: stamp is that value, -1 when the bytes are left
\* alone and 0 when they have been cleared
InvalidEntity(edicts, stamp) ==
    [ent |-> 0, spawn_count |-> stamp, wrapInuse |-> edicts[0].inuse,
     wrapGen |-> edicts[0].spawn_count, origin |-> "restore", freed |-> FALSE,
     size |-> sizeof_script_ud_ent_ptr]

\* the value script_set_variables pushes for one text; type "none" when
\* lua_stringtonumber pushes nothing
DecodeValue(edicts, str, stamp) ==
    LET str_type == str_type_of(str)
        str_val == str_val_of(str)
    IN  IF str_type = Text.number
        THEN (IF lua_stringtonumber(str_val).ok
              THEN NumVal(lua_stringtonumber(str_val).n)
              ELSE [type |-> "none"])
        ELSE IF str_type = Text.boolean
        THEN BoolVal(str_val = Text.true)
        ELSE IF str_type = Text.entity
        THEN (IF stoi(str_val).n < 0 THEN UdVal(InvalidEntity(edicts, stamp))
              ELSE UdVal(script_push_entity(edicts, stoi(str_val).n)))
        ELSE StrVal(CStr(str_val))

\* ------------------------------------------------------------------------
\* String pool
\* ------------------------------------------------------------------------
\* the characters of the pooled texts, in the order of their codes
Chars == <<"A", "a", "b", "c">>
Code(c) == CHOOSE i \in 1 .. Len(Chars) : Chars[i] = c

\* strcmp of two C strings: negative, zero or positive
RECURSIVE strcmp(_, _)
strcmp(str1, str2) ==
    IF str1 = <<>> /\ str2 = <<>> THEN 0
    ELSE IF str1 = <<>> THEN -1
    ELSE IF str2 = <<>> THEN 1
    ELSE IF Code(str1[1]) # Code(str2[1]) THEN Code(str1[1]) - Code(str2[1])
    ELSE strcmp(Tail(str1), Tail(str2))

\* an entry of the list is a pointer to a string: ptr names the allocation,
\* str is the text it holds
script_stringpool_compare(pa, pb) == strcmp(pa.str, pb.str)

\* bsearch over list[lo .. hi]: the index of an entry that compares equal to
\* the key, 0 when the search ends without one
RECURSIVE bsearch(_, _, _, _)
bsearch(key, list, lo, hi) ==
    IF lo > hi THEN 0
    ELSE LET mid == (lo + hi) \div 2
             c == script_stringpool_compare(key, list[mid])
         IN  IF c = 0 THEN mid
             ELSE IF c < 0 THEN bsearch(key, list, lo, mid - 1)
             ELSE bsearch(key, list, mid + 1, hi)

\* qsort: the entries in the order of script_stringpool_compare
RECURSIVE qsort(_)
qsort(list) ==
    IF Len(list) <= 1 THEN list
    ELSE LET last == list[Len(list)]
             front == qsort(SubSeq(list, 1, Len(list) - 1))
             below == SelectSeq(front, LAMBDA e : script_stringpool_compare(e, last) <= 0)
             above == SelectSeq(front, LAMBDA e : script_stringpool_compare(e, last) > 0)
         IN  below \o <<last>> \o above

\* a const char* argument: the null pointer, or a pointer to the bytes s
CharPtr(s) == [null |-> FALSE, s |-> s]

\* lua_tostring: the bytes of a string, the decimal text of a number, and the
\* null pointer for every other value
lua_tostring(v) ==
    IF v.type = "string" THEN CharPtr(v.s)
    ELSE IF v.type = "number" THEN CharPtr(to_string(v.n))
    ELSE [null |-> TRUE, s |-> <<>>]

\* G_CopyString(str, TAG_LEVEL): a new allocation that holds the text; the
\* allocations of a level are numbered in the order they are made
G_CopyString(list, str) == [str |-> CStr(str.s), ptr |-> Len(list) + 1]

\* variant: the new entry is left at the end of the list
script_stringpool_add_Unsorted(list, size, str) ==
    IF str.null THEN [list |-> list, size |-> size, ref |-> NULL]
    ELSE LET found == bsearch([str |-> CStr(str.s), ptr |-> NULL], list, 1, Len(list))
         IN  IF found # 0
             THEN [list |-> list, size |-> size, ref |-> list[found].ptr]
             ELSE LET newstr == G_CopyString(list, str)
                      count == Len(list) + 1
                  IN  [list |-> Append(list, newstr),
                       size |-> IF count > size THEN size + script_stringpool_starter
                                ELSE size,
                       ref |-> newstr.ptr]

\* variant: the list is never enlarged
script_stringpool_add_NoGrow(list, size, str) ==
    IF str.null THEN [list |-> list, size |-> size, ref |-> NULL]
    ELSE LET found == bsearch([str |-> CStr(str.s), ptr |-> NULL], list, 1, Len(list))
         IN  IF found # 0
             THEN [list |-> list, size |-> size, ref |-> list[found].ptr]
             ELSE LET newstr == G_CopyString(list, str)
                  IN  [list |-> qsort(Append(list, newstr)),
                       size |-> size,
                       ref |-> newstr.ptr]

\* script_stringpool_add on the pool (list, size): the pool it leaves and the
\* pointer it returns
script_stringpool_add(list, size, str) ==
    IF str.null THEN [list |-> list, size |-> size, ref |-> NULL]
    ELSE LET found == bsearch([str |-> CStr(str.s), ptr |-> NULL], list, 1, Len(list))
         IN  IF found # 0
             THEN [list |-> list, size |-> size, ref |-> list[found].ptr]
             ELSE LET newstr == G_CopyString(list, str)
                      count == Len(list) + 1
                  IN  [list |-> qsort(Append(list, newstr)),
                       size |-> IF count > size THEN size + script_stringpool_starter
                                ELSE size,
                       ref |-> newstr.ptr]

\* the pool after a call that returned sp, and the record of the call
Interned(sp, str) ==
    /\ script_stringpool_list' = sp.list
    /\ script_stringpool_size' = sp.size
    /\ interned' = IF str.null THEN interned
                   ELSE interned \cup {[str |-> CStr(str.s), ref |-> sp.ref]}

\* ------------------------------------------------------------------------
\* Committing a step
\* ------------------------------------------------------------------------
\* the new pool p, variable table sv and call stack cs become the state; the
\* step is taken only if G_Spawn did not run out of edicts and the caps hold
Commit(p, sv, cs) ==
    /\ p.ok
    /\ \A s \in Slots : p.edicts[s].spawn_count <= MaxSpawnCount
    /\ Len(cs) <= MaxDepth
    /\ g_edicts' = p.edicts
    /\ num_edicts' = p.num_edicts
    /\ spawn_pos' = p.spawn_pos
    /\ despawn_valid' = p.despawn_valid
    /\ despawn_time' = p.despawn_time
    /\ despawn_pos' = p.despawn_pos
    /\ script_vars' = TrackVars(sv, g_edicts, p.edicts)
    /\ script_persistent' = TrackVars(script_persistent, g_edicts, p.edicts)
    /\ callstack' = TrackStack(cs, g_edicts, p.edicts)

\* ------------------------------------------------------------------------
\* func_script use callback
\* ------------------------------------------------------------------------

\* func_script_use up to and including the start of lua_pcall: the trigger
\* stack and call stack it leaves, and how far it got
\* variant: whatever the name is bound to is called
func_script_use_CallsAnything(edicts, ts, cs, self, other, activator, ret) ==
    IF ~script_loaded
    THEN [ts |-> ts, cs |-> cs, res |-> "not loaded"]
    ELSE IF script_globals[edicts[self].script_function].type = "nil"
    THEN [ts |-> ts, cs |-> cs, res |-> "nonexistent function"]
    ELSE LET n == LuaLen(ts)
             frame == [self |-> self, activator |-> activator]
         IN  [ts |-> IF n + 1 > Len(ts) THEN Append(ts, frame)
                     ELSE [ts EXCEPT ![n + 1] = frame],
              cs |-> Append(cs, [self |-> self, other |-> other,
                                 activator |-> activator, n |-> n,
                                 args |-> <<script_push_entity(edicts, self),
                                            script_push_entity(edicts, other),
                                            script_push_entity(edicts, activator)>>,
                                 found |-> <<>>, ret |-> ret, entry |-> ts]),
              res |-> "called"]

\* variant: the callback does not test script_loaded
func_script_use_Unloaded(edicts, ts, cs, self, other, activator, ret) ==
    IF script_globals[edicts[self].script_function].type = "nil"
    THEN [ts |-> ts, cs |-> cs, res |-> "nonexistent function"]
    ELSE IF script_globals[edicts[self].script_function].type # "function"
    THEN [ts |-> ts, cs |-> cs, res |-> "non-function object"]
    ELSE LET n == LuaLen(ts)
             frame == [self |-> self, activator |-> activator]
         IN  [ts |-> IF n + 1 > Len(ts) THEN Append(ts, frame)
                     ELSE [ts EXCEPT ![n + 1] = frame],
              cs |-> Append(cs, [self |-> self, other |-> other,
                                 activator |-> activator, n |-> n,
                                 args |-> <<script_push_entity(edicts, self),
                                            script_push_entity(edicts, other),
                                            script_push_entity(edicts, activator)>>,
                                 found |-> <<>>, ret |-> ret, entry |-> ts]),
              res |-> "called"]

func_script_use(edicts, ts, cs, self, other, activator, ret) ==
    IF ~script_loaded
    THEN [ts |-> ts, cs |-> cs, res |-> "not loaded"]
    ELSE IF script_globals[edicts[self].script_function].type = "nil"
    THEN [ts |-> ts, cs |-> cs, res |-> "nonexistent function"]
    ELSE IF script_globals[edicts[self].script_function].type # "function"
    THEN [ts |-> ts, cs |-> cs, res |-> "non-function object"]
    ELSE LET n == LuaLen(ts)
             frame == [self |-> self, activator |-> activator]
         IN  [ts |-> IF n + 1 > Len(ts) THEN Append(ts, frame)
                     ELSE [ts EXCEPT ![n + 1] = frame],
              cs |-> Append(cs, [self |-> self, other |-> other,
                                 activator |-> activator, n |-> n,
                                 args |-> <<script_push_entity(edicts, self),
                                            script_push_entity(edicts, other),
                                            script_push_entity(edicts, activator)>>,
                                 found |-> <<>>, ret |-> ret, entry |-> ts]),
              res |-> "called"]

\* ent->use(ent, other, activator) for an entity that has a use callback
CallUse(edicts, ts, cs, ent, other, activator, ret) ==
    IF edicts[ent].use = "func_script_use"
    THEN func_script_use(edicts, ts, cs, ent, other, activator, ret)
    ELSE [ts |-> ts, cs |-> cs, res |-> "native"]

\* the end of func_script_use, after lua_pcall has returned (normally or with
\* an error): the frame is removed and control returns to the caller; a
\* delayed-trigger think function then frees its helper
\* variant: the frame below the one pushed is the one removed
FinishUse_PopsCaller(ev, p, sv) ==
    LET fr == callstack[Len(callstack)]
        p2 == IF fr.ret = "think" THEN G_FreeEdict(p, fr.other, level_time) ELSE p
    IN  /\ script_triggerstack' = SetNil(script_triggerstack, fr.n)
        /\ Commit(p2, sv, SubSeq(callstack, 1, Len(callstack) - 1))
        /\ event' = ev
        /\ UNCHANGED <<level_time, script_loaded, script_globals, lua_tables, stringpoolVars, saved>>

FinishUse(ev, p, sv) ==
    LET fr == callstack[Len(callstack)]
        p2 == IF fr.ret = "think" THEN G_FreeEdict(p, fr.other, level_time) ELSE p
    IN  /\ script_triggerstack' = SetNil(script_triggerstack, fr.n + 1)
        /\ Commit(p2, sv, SubSeq(callstack, 1, Len(callstack) - 1))
        /\ event' = ev
        /\ UNCHANGED <<level_time, script_loaded, script_globals, lua_tables, stringpoolVars, saved>>

\* a script error raised inside the running function: it propagates to the
\* lua_pcall of the innermost func_script_use
\* variant: the error path returns before the frame is removed
Raise_KeepsFrame(op, err) ==
    LET fr == callstack[Len(callstack)]
        p2 == IF fr.ret = "think" THEN G_FreeEdict(Pool, fr.other, level_time) ELSE Pool
    IN  /\ Commit(p2, script_vars, SubSeq(callstack, 1, Len(callstack) - 1))
        /\ event' = Ev(op, err, NoUse, "error")
        /\ UNCHANGED <<script_triggerstack, level_time, script_loaded, script_globals, lua_tables, stringpoolVars, saved>>

Raise(op, err) == FinishUse(Ev(op, err, NoUse, "error"), Pool, script_vars)

\* ------------------------------------------------------------------------
\* The running script function and the entity member functions it can call
\* ------------------------------------------------------------------------
Running == callstack # <<>>
Top == callstack[Len(callstack)]

\* handles the running function can name: its three arguments and the handles
\* stored in the variable table
Accessible ==
    IF Running
    THEN {Top.args[j] : j \in 1 .. 3} \cup {Top.found[j] : j \in 1 .. Len(Top.found)}
         \cup VarHandles
    ELSE {}

\* delay argument in seconds; -1 stands for an absent (or nil) argument
Delays == {-1, 0, 1}

\* the text a script of the model shows to a player
Greeting == <<"a">>

\* values a script passes to set(..., "count", v)
Counts == {1}

Same == UNCHANGED <<level_time, script_loaded, script_globals, lua_tables, stringpoolVars, saved>>

\* a member function that changes nothing
Quiet == UNCHANGED <<poolVars, script_vars, script_persistent, callstack, script_triggerstack>>

\* a temporary entity spawned by a delayed member function
SpawnHelper(classname, think, ent, activator, delay) ==
    LET p == G_Spawn(Pool, level_time)
    IN  IF ~p.ok THEN p
        ELSE [p EXCEPT !.edicts[p.e] =
                 [@ EXCEPT !.classname = classname,
                           !.nextthink = level_time + delay * 1000,
                           !.think = think,
                           !.activator = activator,
                           !.target_ent = ent,
                           !.count = p.edicts[ent].spawn_count,
                           !.scheduled_for = p.edicts[ent].spawn_count,
                           !.activator_for = IF activator # NULL /\ g_edicts[activator].inuse
                                             THEN g_edicts[activator].spawn_count
                                             ELSE NULL]]

script_entity_get(h, key) ==
    /\ Running
    /\ IF Stale(g_edicts, h)
       THEN Raise("get", Err.invalid)
       ELSE /\ event' = Ev("get", "", NoUse,
                           IF key = "count" THEN "count" ELSE g_edicts[h.ent].classname)
            /\ Quiet
            /\ Same

script_entity_set(h, key, v) ==
    /\ Running
    /\ IF Stale(g_edicts, h)
       THEN Raise("set", Err.invalid)
       ELSE IF key = "count"
       THEN /\ Commit([Pool EXCEPT !.edicts[h.ent].count = v], script_vars, callstack)
            /\ event' = Ev("set", "", NoUse, "written")
            /\ UNCHANGED script_triggerstack
            /\ Same
       ELSE IF key = "message"
       THEN LET sp == script_stringpool_add(script_stringpool_list,
                                            script_stringpool_size, lua_tostring(v))
            IN  /\ Commit([Pool EXCEPT !.edicts[h.ent].message = sp.ref],
                          script_vars, callstack)
                /\ Interned(sp, lua_tostring(v))
                /\ event' = Ev("set", "", NoUse, "written")
                /\ UNCHANGED <<script_triggerstack, level_time, script_loaded,
                               script_globals, lua_tables, saved>>
       ELSE Raise("set", "attempt to set a read-only value")

\* variant: no test for the entity triggering itself
script_entity_trigger_Unguarded(h, delay) ==
    /\ Running
    /\ LET ent == h.ent
           n == LuaLen(script_triggerstack)
           self == script_triggerstack[n].self
           activator == script_triggerstack[n].activator
       IN  IF Stale(g_edicts, h)
           THEN Raise("trigger", Err.invalid)
           ELSE IF delay > 0
           THEN /\ Commit(SpawnHelper("DelayedTrigger", "script_entity_trigger_delay",
                                      ent, activator, delay), script_vars, callstack)
                /\ event' = Ev("trigger", "", NoUse, "scheduled")
                /\ UNCHANGED script_triggerstack
                /\ Same
           ELSE IF g_edicts[ent].use # "none"
           THEN LET r == CallUse(g_edicts, script_triggerstack, callstack,
                                 ent, self, activator, "script")
                IN  /\ Commit(Pool, script_vars, r.cs)
                    /\ script_triggerstack' = r.ts
                    /\ event' = Ev("trigger", "", UseOf(ent, self, activator), r.res)
                    /\ Same
           ELSE Raise("trigger", "entity has no trigger function")

script_entity_trigger(h, delay) ==
    /\ Running
    /\ LET ent == h.ent
           n == LuaLen(script_triggerstack)
           self == script_triggerstack[n].self
           activator == script_triggerstack[n].activator
       IN  IF Stale(g_edicts, h)
           THEN Raise("trigger", Err.invalid)
           ELSE IF delay > 0
           THEN /\ Commit(SpawnHelper("DelayedTrigger", "script_entity_trigger_delay",
                                      ent, activator, delay), script_vars, callstack)
                /\ event' = Ev("trigger", "", NoUse, "scheduled")
                /\ UNCHANGED script_triggerstack
                /\ Same
           ELSE IF ent = self
           THEN Raise("trigger", "func_script triggered itself with no delay")
           ELSE IF g_edicts[ent].use # "none"
           THEN LET r == CallUse(g_edicts, script_triggerstack, callstack,
                                 ent, self, activator, "script")
                IN  /\ Commit(Pool, script_vars, r.cs)
                    /\ script_triggerstack' = r.ts
                    /\ event' = Ev("trigger", "", UseOf(ent, self, activator), r.res)
                    /\ Same
           ELSE Raise("trigger", "entity has no trigger function")

\* script_entity_do_kill; team chains and the monster counter are not modelled
script_entity_do_kill(p, ent) == G_FreeEdict(p, ent, level_time)

\* variant: players are killed like every other entity
script_entity_kill_Anyone(h, delay) ==
    /\ Running
    /\ LET ent == h.ent
       IN  IF Stale(g_edicts, h)
           THEN Raise("kill", Err.invalid)
           ELSE IF delay > 0
           THEN /\ Commit(SpawnHelper("DelayedKill", "script_entity_kill_delay",
                                      ent, NULL, delay), script_vars, callstack)
                /\ event' = Ev("kill", "", NoUse, "scheduled")
                /\ UNCHANGED script_triggerstack
                /\ Same
           ELSE /\ Commit(script_entity_do_kill(Pool, ent), script_vars, callstack)
                /\ event' = Ev("kill", "", NoUse, "killed")
                /\ UNCHANGED script_triggerstack
                /\ Same

script_entity_kill(h, delay) ==
    /\ Running
    /\ LET ent == h.ent
       IN  IF Stale(g_edicts, h)
           THEN Raise("kill", Err.invalid)
           ELSE IF g_edicts[ent].svflags = "player"
           THEN Raise("kill", "entity targeted by kill is a player")
           ELSE IF delay > 0
           THEN /\ Commit(SpawnHelper("DelayedKill", "script_entity_kill_delay",
                                      ent, NULL, delay), script_vars, callstack)
                /\ event' = Ev("kill", "", NoUse, "scheduled")
                /\ UNCHANGED script_triggerstack
                /\ Same
           ELSE /\ Commit(script_entity_do_kill(Pool, ent), script_vars, callstack)
                /\ event' = Ev("kill", "", NoUse, "killed")
                /\ UNCHANGED script_triggerstack
                /\ Same

script_entity_message(h, message, delay) ==
    /\ Running
    /\ LET ent == h.ent
       IN  IF Stale(g_edicts, h)
           THEN Raise("message", Err.invalid)
           ELSE IF g_edicts[ent].svflags # "player"
           THEN Raise("message", "entity targeted for message isn't a player")
           ELSE IF delay > 0
           THEN LET t == SpawnHelper("DelayedMessage", "script_entity_message_delay",
                                     ent, NULL, delay)
                    sp == script_stringpool_add(script_stringpool_list,
                                                script_stringpool_size, CharPtr(message))
                IN  /\ Commit(IF t.ok THEN [t EXCEPT !.edicts[t.e].message = sp.ref]
                              ELSE t,
                              script_vars, callstack)
                    /\ Interned(sp, CharPtr(message))
                    /\ event' = Ev("message", "", NoUse, "scheduled")
                    /\ UNCHANGED <<script_triggerstack, level_time, script_loaded,
                                   script_globals, lua_tables, saved>>
           ELSE /\ event' = Ev("message", "", NoUse, "printed")
                /\ Quiet
                /\ Same

script_entity_setstring(h) ==
    /\ Running
    /\ LET ent == h.ent
       IN  IF Stale(g_edicts, h)
           THEN Raise("setstring", Err.invalid)
           ELSE IF g_edicts[ent].classname # "target_string"
           THEN Raise("setstring", "entity must be a target_string")
           ELSE /\ event' = Ev("setstring", "", UseOf(ent, NULL, NULL), "native")
                /\ Quiet
                /\ Same

\* variant: the entity is read without the handle being checked
script_entity_player_Unchecked(h) ==
    /\ Running
    /\ event' = Ev("player", "", NoUse,
                   IF g_edicts[h.ent].svflags = "player" THEN "true" ELSE "false")
    /\ Quiet
    /\ Same

script_entity_player(h) ==
    /\ Running
    /\ IF Stale(g_edicts, h)
       THEN Raise("player", Err.invalid)
       ELSE /\ event' = Ev("player", "", NoUse,
                           IF g_edicts[h.ent].svflags = "player" THEN "true" ELSE "false")
            /\ Quiet
            /\ Same

script_entity_monster(h) ==
    /\ Running
    /\ IF Stale(g_edicts, h)
       THEN Raise("monster", Err.invalid)
       ELSE /\ event' = Ev("monster", "", NoUse,
                           IF g_edicts[h.ent].svflags = "monster" THEN "true" ELSE "false")
            /\ Quiet
            /\ Same

script_entity_valid(h) ==
    /\ Running
    /\ event' = Ev("valid", "", NoUse,
                   IF script_check_entity(g_edicts, h) # NULL THEN "true" ELSE "false")
    /\ Quiet
    /\ Same

\* Q_strcasecmp(str, value) == 0: the texts are equal up to the case of their
\* letters. A text is a sequence of characters; a class name is written as a
\* single symbol
\* irandom(max_value): an integer of [0, max_value), and 0 when max_value is
\* not positive; the set of the values it can return
irandom(max_value) == IF max_value <= 0 THEN {0} ELSE 0 .. (max_value - 1)

\* list = {script.pick(list)}: the function keeps what pick returns, an
\* element of the list or nil, in place of the list
script_pick(list) ==
    /\ Running
    /\ LET n == Len(list)
       IN  \E r \in irandom(n - 1) :
               /\ callstack' = [callstack EXCEPT
                                    ![Len(callstack)].found =
                                        IF n = 0 THEN <<>> ELSE <<list[1 + r]>>]
               /\ event' = Ev("pick", "", NoUse, IF n = 0 THEN "nil" ELSE "element")
    /\ UNCHANGED <<poolVars, script_vars, script_persistent, script_triggerstack>>
    /\ Same

\* variant: the case of the letters counts
Q_strcasecmp_Exact(str, value) == str = value

Q_strcasecmp(str, value) ==
    LET tolower(c) == IF c = "A" THEN "a" ELSE c
    IN  /\ Len(str) = Len(value)
        /\ \A i \in 1 .. Len(str) : tolower(str[i]) = tolower(value[i])

\* *(const char**)((const char*)from + value_offset): the string field of the
\* entity that the key names; message points into the string pool
StringField(ed, key) ==
    IF key = "classname" THEN CharPtr(<<ed.classname>>)
    ELSE IF ed.message = NULL THEN [null |-> TRUE, s |-> <<>>]
    ELSE CharPtr((CHOOSE e \in {script_stringpool_list[i] :
                                   i \in 1 .. Len(script_stringpool_list)} :
                      e.ptr = ed.message).str)

\* script_find_offset: the next slot after from that is in use and whose
\* field is not null and equal to value, or NULL
RECURSIVE script_find_offset(_, _, _)
script_find_offset(from, key, value) ==
    IF from + 1 >= num_edicts THEN NULL
    ELSE IF /\ g_edicts[from + 1].inuse
            /\ ~StringField(g_edicts[from + 1], key).null
            /\ Q_strcasecmp(StringField(g_edicts[from + 1], key).s, value)
    THEN from + 1
    ELSE script_find_offset(from + 1, key, value)

\* the list script_find builds from slot ent on
RECURSIVE FindList(_, _, _)
FindList(ent, key, value) ==
    IF script_find_offset(ent, key, value) = NULL THEN <<>>
    ELSE <<script_push_entity(g_edicts, script_find_offset(ent, key, value))>>
         \o FindList(script_find_offset(ent, key, value), key, value)

\* script.find(value, key); the function keeps the list in a local
script_find(value, key) ==
    /\ Running
    /\ IF key \notin {"classname", "message"}
       THEN Raise("find", "attempt to search by non-string key")
       ELSE /\ callstack' = [callstack EXCEPT
                                 ![Len(callstack)].found = FindList(0, key, value)]
            /\ event' = Ev("find", "", NoUse, "found")
            /\ UNCHANGED <<poolVars, script_vars, script_persistent, script_triggerstack>>
            /\ Same

\* values of the types the type tests of the metamethods reject
FunVal == [type |-> "function"]


\* lua_rawget with a key of any type: the variable tables hold string keys only
RawGet(t, key) ==
    IF key.type = "string" /\ key.s \in DOMAIN t THEN t[key.s] ELSE NilVal

\* script.vars[key], through the __index metamethod
script_vars_get(key) == RawGet(script_vars, key)

\* script.persistent[key]: __index is the registry table itself
script_persistent_get(key) == RawGet(script_persistent, key)

\* script.vars[key] = v, through the __newindex metamethod
\* variant: the metamethod sits on the table that holds the values, so that
\* Lua calls it for a key that is absent only and sets a present key directly
script_vars_set_NewKeysOnly(key, v) ==
    /\ Running
    /\ IF key.type # "string"
       THEN Raise("vars_set", Err.key)
       ELSE IF \/ key.s \in DOMAIN script_vars
               \/ v.type \in {"nil", "number", "boolean", "string", "userdata"}
       THEN /\ script_vars' = RawSet(script_vars, key.s, v)
            /\ event' = Ev("vars_set", "", NoUse, "written")
            /\ UNCHANGED <<poolVars, script_persistent, callstack, script_triggerstack>>
            /\ Same
       ELSE Raise("vars_set", Err.vars_type)

script_vars_set(key, v) ==
    /\ Running
    /\ IF key.type # "string"
       THEN Raise("vars_set", Err.key)
       ELSE IF v.type \in {"nil", "number", "boolean", "string", "userdata"}
       THEN /\ script_vars' = RawSet(script_vars, key.s, v)
            /\ event' = Ev("vars_set", "", NoUse, "written")
            /\ UNCHANGED <<poolVars, script_persistent, callstack, script_triggerstack>>
            /\ Same
       ELSE Raise("vars_set", Err.vars_type)

\* variant: the persistent table takes userdata as the ephemeral table does
script_persistent_set_TakesUserdata(key, v) ==
    /\ Running
    /\ IF key.type # "string"
       THEN Raise("persistent_set", Err.key)
       ELSE IF v.type \in {"nil", "number", "boolean", "string", "userdata"}
       THEN /\ script_persistent' = RawSet(script_persistent, key.s, v)
            /\ event' = Ev("persistent_set", "", NoUse, "written")
            /\ UNCHANGED <<poolVars, script_vars, callstack, script_triggerstack>>
            /\ Same
       ELSE Raise("persistent_set", Err.persistent_type)

\* script.persistent[key] = v, through the __newindex metamethod
script_persistent_set(key, v) ==
    /\ Running
    /\ IF key.type # "string"
       THEN Raise("persistent_set", Err.key)
       ELSE IF v.type \in {"nil", "number", "boolean", "string"}
       THEN /\ script_persistent' = RawSet(script_persistent, key.s, v)
            /\ event' = Ev("persistent_set", "", NoUse, "written")
            /\ UNCHANGED <<poolVars, script_vars, callstack, script_triggerstack>>
            /\ Same
       ELSE Raise("persistent_set", Err.persistent_type)

\* t[k] read by a script: the field of the table itself, else what the
\* __index table of its metatable holds; "none" when t is no table of the script
RECURSIVE Index(_, _, _)
Index(tables, t, k) ==
    IF t.type # "table" \/ t.id = 0 THEN [type |-> "none"]
    ELSE IF k \in DOMAIN tables[t.id].fields THEN tables[t.id].fields[k]
    ELSE IF tables[t.id].index # 0 THEN Index(tables, TblRef(tables[t.id].index), k)
    ELSE NilVal

\* t[keys[1]][keys[2]]..., "none" when a value on the way is no table
RECURSIVE Resolve(_, _, _)
Resolve(tables, t, keys) ==
    IF keys = <<>> \/ t.type = "none" THEN t
    ELSE Resolve(tables, Index(tables, t, Head(keys)), Tail(keys))


\* name = v in a script function: the globals table is empty and its
\* metatable has script_readonly as __newindex
script_global_assign(name, v) ==
    /\ Running
    /\ Raise("global_set", Err.readonly)

\* name[keys[1]]...[keys[n]] = v in a script function
script_field_assign(name, keys, v) ==
    /\ Running
    /\ LET t == Resolve(lua_tables, script_globals[name], SubSeq(keys, 1, Len(keys) - 1))
           k == keys[Len(keys)]
       IN  IF t.type # "table" \/ t.id = 0
           THEN Raise("field_set", Err.index)
           ELSE IF k \notin DOMAIN lua_tables[t.id].fields /\ lua_tables[t.id].readonly
           THEN Raise("field_set", Err.readonly)
           ELSE /\ lua_tables' = [lua_tables EXCEPT ![t.id].fields = RawSet(@, k, v)]
                /\ event' = Ev("field_set", "", NoUse, "written")
                /\ UNCHANGED <<poolVars, script_vars, script_persistent, callstack,
                               script_triggerstack, level_time, script_loaded,
                               script_globals, stringpoolVars, saved>>

\* l[k] = v in a script function, for a local l of the chunk that the function
\* has as an upvalue: l holds the table that local l = {} made, which
\* script_table_readonly leaves without a metatable
script_local_assign(id, k, v) ==
    /\ Running
    /\ id \in DOMAIN lua_tables
    /\ lua_tables[id].index = 0 /\ ~lua_tables[id].readonly
    /\ lua_tables' = [lua_tables EXCEPT ![id].fields = RawSet(@, k, v)]
    /\ event' = Ev("local_set", "", NoUse, "written")
    /\ UNCHANGED <<poolVars, script_vars, script_persistent, callstack,
                   script_triggerstack, level_time, script_loaded,
                   script_globals, stringpoolVars, saved>>

\* the script function returns, or raises an error of its own
ScriptReturn ==
    /\ Running
    /\ FinishUse(Ev("return", "", NoUse, "returned"), Pool, script_vars)

ScriptError ==
    /\ Running
    /\ Raise("function", "runtime error")

\* ------------------------------------------------------------------------
\* Delayed helpers: think functions, run by the game loop when due
\* ------------------------------------------------------------------------
Due(e) ==
    /\ g_edicts[e].inuse
    /\ g_edicts[e].nextthink > 0
    /\ g_edicts[e].nextthink <= level_time

\* the game loop clears nextthink before it calls think
Thinking(e) == [Pool EXCEPT !.edicts[e].nextthink = 0]

script_entity_trigger_delay(self) ==
    /\ ~Running
    /\ Due(self)
    /\ g_edicts[self].think = "script_entity_trigger_delay"
    /\ LET ent == g_edicts[self].target_ent
           activator == g_edicts[self].activator
       IN  IF g_edicts[ent].spawn_count # g_edicts[self].count
           THEN /\ Commit(G_FreeEdict(Thinking(self), self, level_time), script_vars, callstack)
                /\ event' = Ev("think_trigger", "", NoUse, "target no longer exists")
                /\ UNCHANGED script_triggerstack
                /\ Same
           ELSE IF g_edicts[ent].use # "none"
           THEN LET r == CallUse(g_edicts, script_triggerstack, callstack,
                                 ent, self, activator, "think")
                IN  /\ Commit(IF r.res = "called" THEN Thinking(self)
                              ELSE G_FreeEdict(Thinking(self), self, level_time),
                              script_vars, r.cs)
                    /\ script_triggerstack' = r.ts
                    /\ event' = Ev("think_trigger", "", UseOf(ent, self, activator), r.res)
                    /\ Same
           ELSE /\ Commit(G_FreeEdict(Thinking(self), self, level_time), script_vars, callstack)
                /\ event' = Ev("think_trigger", "", NoUse, "target has no use function")
                /\ UNCHANGED script_triggerstack
                /\ Same

script_entity_kill_delay(self) ==
    /\ ~Running
    /\ Due(self)
    /\ g_edicts[self].think = "script_entity_kill_delay"
    /\ LET ent == g_edicts[self].target_ent
           stale == g_edicts[ent].spawn_count # g_edicts[self].count
           p == IF stale THEN Thinking(self) ELSE script_entity_do_kill(Thinking(self), ent)
       IN  /\ Commit(G_FreeEdict(p, self, level_time), script_vars, callstack)
           /\ event' = Ev("think_kill", "", NoUse,
                          IF stale THEN "target no longer exists" ELSE "killed")
           /\ UNCHANGED script_triggerstack
           /\ Same

script_entity_message_delay(self) ==
    /\ ~Running
    /\ Due(self)
    /\ g_edicts[self].think = "script_entity_message_delay"
    /\ LET ent == g_edicts[self].target_ent
           stale == g_edicts[ent].spawn_count # g_edicts[self].count
       IN  /\ Commit(G_FreeEdict(Thinking(self), self, level_time), script_vars, callstack)
           /\ event' = Ev("think_message", "", NoUse,
                          IF stale THEN "target no longer exists" ELSE "printed")
           /\ UNCHANGED script_triggerstack
           /\ Same

\* ------------------------------------------------------------------------
\* The native game around the scripting engine
\* ------------------------------------------------------------------------

\* G_Spawn followed by the spawn function of the class
HostSpawn(kind) ==
    /\ LET p == G_Spawn(Pool, level_time)
       IN  /\ p.ok
           /\ Commit([p EXCEPT !.edicts[p.e] =
                         [@ EXCEPT !.classname = kind.classname,
                                   !.use = kind.use,
                                   !.script_function = kind.script_function]],
                     script_vars, callstack)
    /\ event' = NoEvent
    /\ UNCHANGED script_triggerstack
    /\ Same

\* native code frees an entity (killtarget, an entity removing itself, ...)
HostFree(ed) ==
    /\ ed < num_edicts
    /\ g_edicts[ed].inuse
    /\ Commit(G_FreeEdict(Pool, ed, level_time), script_vars, callstack)
    /\ event' = NoEvent
    /\ UNCHANGED script_triggerstack
    /\ Same

\* native code uses a func_script entity (G_UseTargets and the like); other and
\* activator are entities of the list, possibly freed in the meantime
HostUse(ent, other, activator) ==
    /\ ent < num_edicts /\ other < num_edicts /\ activator < num_edicts
    /\ activator \in {other} \cup (1 .. maxclients)
    /\ g_edicts[ent].inuse
    /\ g_edicts[ent].use = "func_script_use"
    /\ LET r == CallUse(g_edicts, script_triggerstack, callstack, ent, other, activator,
                        IF Running THEN "script" ELSE "host")
       IN  /\ Commit(Pool, script_vars, r.cs)
           /\ script_triggerstack' = r.ts
           /\ event' = Ev("use", "", UseOf(ent, other, activator), r.res)
    /\ Same

\* one frame of game time
Tick ==
    /\ ~Running
    /\ level_time + TickMs <= MaxTicks * TickMs
    /\ \A e \in Slots : ~Due(e)
    /\ level_time' = level_time + TickMs
    /\ event' = NoEvent
    /\ UNCHANGED <<poolVars, script_vars, callstack, script_triggerstack,
                   script_loaded, script_globals, lua_tables, stringpoolVars, script_persistent, saved>>

\* frames of game time: level.time advances by ms milliseconds
G_RunFrames(ms) ==
    /\ ~Running
    /\ level_time + ms <= MaxLevelTime
    /\ \A e \in Slots : ~Due(e)
    /\ level_time' = level_time + ms
    /\ event' = NoEvent
    /\ UNCHANGED <<poolVars, script_vars, callstack, script_triggerstack,
                   script_loaded, script_globals, lua_tables, stringpoolVars, script_persistent, saved>>

\* ------------------------------------------------------------------------
\* script_load
\* ------------------------------------------------------------------------
\* names of globals: the function names, the empty name and the API table
GlobalNames == FuncNames \cup {"", "script"}

\* a table: its own fields, the table its metatable names as __index (0 if
\* none) and whether the metatable has script_readonly as __newindex


\* script_table_readonly for the table id: with recursive, every table found
\* as a field value by the walk is replaced in that field by its read-only
\* stand-in first; then the stand-in of the table itself is made, an empty
\* table whose metatable has the table as __index and script_readonly as
\* __newindex. The result is the tables and the id of the stand-in. path is
\* the set of tables whose walk has not returned yet (the calls on the C
\* stack): the walk of a table that reaches that table again starts the same
\* walk over, finds the same field again (it is replaced only after the
\* inner call) and so never returns; returns tells which is the case
RECURSIVE script_table_readonly(_, _, _, _)
RECURSIVE script_table_readonly_walk(_, _, _, _)
script_table_readonly_walk(tables, id, keys, path) ==
    IF keys = {} THEN [tables |-> tables, returns |-> TRUE]
    ELSE LET key == CHOOSE k \in keys : TRUE
             value == tables[id].fields[key]
         IN  IF value.type = "table"
             THEN LET r == script_table_readonly(tables, value.id, TRUE, path)
                  IN  IF ~r.returns THEN [tables |-> tables, returns |-> FALSE]
                      ELSE script_table_readonly_walk(
                               [r.tables EXCEPT ![id].fields[key] = TblRef(r.id)],
                               id, keys \ {key}, path)
             ELSE script_table_readonly_walk(tables, id, keys \ {key}, path)

script_table_readonly(tables, id, recursive, path) ==
    LET walked == IF ~recursive THEN [tables |-> tables, returns |-> TRUE]
                  ELSE IF id \in path THEN [tables |-> tables, returns |-> FALSE]
                  ELSE script_table_readonly_walk(tables, id, DOMAIN tables[id].fields,
                                                  path \cup {id})
    IN  IF ~walked.returns THEN [tables |-> tables, id |-> 0, returns |-> FALSE]
        ELSE [tables |-> Append(walked.tables, [fields |-> EmptyTable, index |-> id, readonly |-> TRUE]),
              id |-> Len(walked.tables) + 1, returns |-> TRUE]

\* variant: a name that is bound already is bound again
script_globals_set_Rebinds(globals, tables, name, v) ==
    IF name = "script"
    THEN [ok |-> FALSE, err |-> Err.script_name, globals |-> globals, tables |-> tables,
          returns |-> TRUE]
    ELSE LET r == IF v.type = "table" THEN script_table_readonly(tables, v.id, TRUE, {})
                  ELSE [tables |-> tables, id |-> 0, returns |-> TRUE]
         IN  IF ~r.returns
             THEN [ok |-> FALSE, err |-> "", globals |-> globals, tables |-> tables,
                   returns |-> FALSE]
             ELSE [ok |-> TRUE, err |-> "",
                   globals |-> [globals EXCEPT ![name] = IF v.type = "table" THEN TblRef(r.id) ELSE v],
                   tables |-> r.tables, returns |-> TRUE]

\* script_globals_set: name = v through the __newindex of the globals during
\* the load
script_globals_set(globals, tables, name, v) ==
    IF name = "script"
    THEN [ok |-> FALSE, err |-> Err.script_name, globals |-> globals, tables |-> tables,
          returns |-> TRUE]
    ELSE IF globals[name].type # "nil"
    THEN [ok |-> FALSE, err |-> Err.existing_name, globals |-> globals, tables |-> tables,
          returns |-> TRUE]
    ELSE LET r == IF v.type = "table" THEN script_table_readonly(tables, v.id, TRUE, {})
                  ELSE [tables |-> tables, id |-> 0, returns |-> TRUE]
         IN  IF ~r.returns
             THEN [ok |-> FALSE, err |-> "", globals |-> globals, tables |-> tables,
                   returns |-> FALSE]
             ELSE [ok |-> TRUE, err |-> "",
                   globals |-> [globals EXCEPT ![name] = IF v.type = "table" THEN TblRef(r.id) ELSE v],
                   tables |-> r.tables, returns |-> TRUE]

\* the fresh globals table script_load makes: only the API table is bound

\* ------------------------------------------------------------------------
\* Level scripts: the statements of a chunk, run in order by script_load
\* ------------------------------------------------------------------------
\* local l = {}
Local(l) == [op |-> "local", l |-> l]
\* the table held by local l, as the value of a statement
Loc(l) == [type |-> "local", l |-> l]
\* l[k] = v, for a local l that holds a table
SetField(l, k, v) == [op |-> "setfield", l |-> l, k |-> k, v |-> v]
\* name = v, for a global name
Global(name, v) == [op |-> "global", name |-> name, v |-> v]

\* the chunk from statement i on, in the state st of the load
RECURSIVE RunChunk(_, _, _)
RunChunk(st, stmts, i) ==
    IF i > Len(stmts) \/ ~st.ok THEN st
    ELSE LET stmt == stmts[i]
             val(v) == IF v.type = "local" THEN TblRef(st.env[v.l]) ELSE v
         IN  IF stmt.op = "local"
             THEN RunChunk([st EXCEPT !.tables = Append(@, [fields |-> EmptyTable, index |-> 0, readonly |-> FALSE]),
                                      !.env = TableSet(@, stmt.l, Len(st.tables) + 1)],
                           stmts, i + 1)
             ELSE IF stmt.op = "setfield"
             THEN RunChunk([st EXCEPT !.tables[st.env[stmt.l]].fields =
                                          RawSet(@, stmt.k, val(stmt.v))],
                           stmts, i + 1)
             ELSE IF stmt.op = "global"
             THEN LET r == script_globals_set(st.globals, st.tables, stmt.name, val(stmt.v))
                  IN  RunChunk([st EXCEPT !.ok = r.ok, !.err = r.err, !.returns = r.returns,
                                          !.globals = r.globals, !.tables = r.tables],
                               stmts, i + 1)
             ELSE [st EXCEPT !.ok = FALSE, !.err = "runtime error"]

\* a chunk is a file that parses or not, and its statements
Chunk(stmts) == [parses |-> TRUE, stmts |-> stmts]

\* the level script of the model: f is a function and t a table
LevelScript == Chunk(<<Global("f", FunVal), Local(1), Global("t", Loc(1))>>)
\* a file that does not parse, and a script that fails after its definitions
BrokenScript == [parses |-> FALSE, stmts |-> <<>>]
FailingScript == Chunk(LevelScript.stmts \o <<[op |-> "error"]>>)
LoadOutcomes == {LevelScript, BrokenScript, FailingScript}

\* what running the chunk leaves
Loaded(chunk) ==
    LET st == [ok |-> TRUE, err |-> "", globals |-> [name \in GlobalNames |-> IF name = "script" THEN ApiVal ELSE NilVal], tables |-> <<>>,
               env |-> EmptyTable, returns |-> TRUE]
    IN  IF chunk.parses THEN RunChunk(st, chunk.stmts, 1)
        ELSE [st EXCEPT !.ok = FALSE, !.err = "syntax error"]

\* variant: the string pool is left as it is
script_load_KeepsPool(chunk) ==
    /\ ~Running
    /\ script_loaded' = Loaded(chunk).ok
    /\ script_triggerstack' = <<>>
    /\ script_vars' = EmptyTable
    /\ script_globals' = Loaded(chunk).globals
    /\ lua_tables' = Loaded(chunk).tables
    /\ event' = NoEvent
    /\ UNCHANGED <<poolVars, level_time, callstack, script_persistent, saved, stringpoolVars>>

script_load(chunk) ==
    /\ ~Running
    /\ script_loaded' = Loaded(chunk).ok
    /\ script_stringpool_list' = <<>>
    /\ interned' = {}
    /\ script_triggerstack' = <<>>
    /\ script_vars' = EmptyTable
    /\ script_globals' = Loaded(chunk).globals
    /\ lua_tables' = Loaded(chunk).tables
    /\ event' = IF Loaded(chunk).returns THEN NoEvent
                ELSE Ev("load", "", NoUse, "no return")
    /\ UNCHANGED <<poolVars, level_time, callstack, script_persistent, saved,
                   script_stringpool_size>>

\* ------------------------------------------------------------------------
\* Save support
\* ------------------------------------------------------------------------
TableOf(persistent) == IF persistent THEN script_persistent ELSE script_vars

\* script_get_variables: every key and value goes through a const char*, and
\* insert_or_assign keeps one entry per resulting key
\* the ways the entries of a map collapse when every key is cut at its first
\* NUL: for each resulting key, the entry that is kept
Collapses(m) ==
    {from \in [{CStr(k) : k \in DOMAIN m} -> DOMAIN m] :
        \A key \in DOMAIN from : CStr(from[key]) = key}

\* the mappings script_get_variables can produce for table t
Snapshots(t, edicts) ==
    {[key \in DOMAIN from |-> EncodeValue(edicts, t[from[key]])] : from \in Collapses(t)}

script_get_variables(persistent) ==
    /\ ~Running
    /\ saved' \in Snapshots(TableOf(persistent), g_edicts)
    /\ event' = NoEvent
    /\ UNCHANGED <<poolVars, level_time, script_loaded, script_globals, lua_tables, stringpoolVars, script_vars,
                   script_persistent, script_triggerstack, callstack>>

\* the table after lua_rawset of every entry of a mapping whose entries all
\* push a value
Restored(t, variables, edicts, from, stamp) ==
    [k \in (DOMAIN t) \cup (DOMAIN from) |->
        IF k \in DOMAIN from THEN DecodeValue(edicts, variables[from[k]], stamp)
        ELSE t[k]]

\* the tables script_set_variables can leave when it restores variables into t
Restores(t, variables, edicts) ==
    {Restored(t, variables, edicts, from, stamp) :
        from \in Collapses(variables), stamp \in {-1, 0}}

\* lua_gettop(L) at the end of script_set_variables, entered with the stack at
\* height 0: lua_getfield pushes the selected table; every entry pushes its
\* key and then the value decoded from its text, which is nothing when
\* lua_stringtonumber fails, and lua_rawset pops two values; lua_pop(L, 1)
\* pops the table
script_set_variables_top(variables) ==
    LET pushed == {key \in DOMAIN variables :
                      DecodeValue(g_edicts, variables[key], -1).type # "none"}
        unpushed == DOMAIN variables \ pushed
    IN  1 + Cardinality(pushed) * (1 + 1 - 2) + Cardinality(unpushed) * (1 + 0 - 2) - 1

\* script_set_variables: the entries are added to the table as it is. An
\* entry for which lua_stringtonumber pushes nothing leaves the key on top of
\* the stack: lua_rawset(L, -3) then takes the slot below the selected table
\* for the table (the function is called on an empty stack, so there is no
\* value there), the selected table for the key and the key for the value,
\* and pops the selected table, so that no later entry reaches it either.
\* What follows is not defined: the call does not return, or it returns with
\* the entries walked before that one (the order of the mapping is any order)
\* in the table and the Lua stack out of step
script_set_variables(variables, persistent) ==
    /\ ~Running
    /\ \A key \in DOMAIN variables :
           str_type_of(variables[key]) = Text.entity =>
               /\ stoi(str_val_of(variables[key])).ok
               /\ stoi(str_val_of(variables[key])).n < MaxEntities
    /\ LET pushed == {key \in DOMAIN variables :
                         DecodeValue(g_edicts, variables[key], -1).type # "none"}
           walked == IF pushed = DOMAIN variables THEN {variables}
                     ELSE {[key \in some |-> variables[key]] : some \in SUBSET pushed}
       IN  /\ IF persistent
              THEN /\ \E w \in walked :
                          script_persistent' \in Restores(script_persistent, w, g_edicts)
                   /\ UNCHANGED script_vars
              ELSE /\ \E w \in walked :
                          script_vars' \in Restores(script_vars, w, g_edicts)
                   /\ UNCHANGED script_persistent
           /\ IF pushed = DOMAIN variables THEN event' = NoEvent
              ELSE \E res \in {"no return", "stack corrupted"} :
                       event' = Ev("set_variables", "", NoUse, res)
    /\ UNCHANGED <<poolVars, level_time, script_loaded, script_globals, lua_tables, stringpoolVars,
                   script_triggerstack, callstack, saved>>

\* ------------------------------------------------------------------------
\* Specification
\* ------------------------------------------------------------------------
Init ==
    /\ g_edicts = [s \in Slots |-> InitialEdict(s)]
    /\ num_edicts = LastSpecial + 1
    /\ spawn_pos = LastSpecial
    /\ despawn_valid = FALSE
    /\ despawn_time = 0
    /\ despawn_pos = 0
    /\ level_time = 0
    /\ script_loaded = FALSE
    /\ script_globals = [name \in GlobalNames |-> NilVal]
    /\ lua_tables = <<>>
    /\ script_stringpool_list = <<>>
    /\ script_stringpool_size = script_stringpool_starter
    /\ interned = {}
    /\ script_vars = EmptyTable
    /\ script_persistent = EmptyTable
    /\ script_triggerstack = <<>>
    /\ callstack = <<>>
    /\ saved = <<>>
    /\ event = NoEvent

\* ------------------------------------------------------------------------
\* Handles over the life of the pool: entities are spawned, used, killed and
\* freed, scripts keep handles in the variable table, and the save system
\* restores entity entries
\* ------------------------------------------------------------------------
ScriptKind == [classname |-> "func_script", use |-> "func_script_use", script_function |-> "f"]


Next ==
    \/ script_load(LevelScript)
    \/ HostSpawn(ScriptKind)
    \/ \E ed \in Slots : HostFree(ed)
    \/ \E ent \in Slots, other \in Slots \ (1 .. LastSpecial), activator \in 1 .. maxclients :
           ~Running /\ HostUse(ent, other, activator)
    \/ \E k \in Keys, v \in {NilVal} \cup {UdVal(h) : h \in Accessible} : script_vars_set(StrVal(k), v)
    \/ \E h \in Accessible : script_entity_kill(h, -1)
    \/ \E h \in Accessible : script_entity_valid(h)
    \/ ScriptReturn
    \/ \E n \in {-1} \cup Slots :
           script_set_variables([k \in Keys |-> Text.entity \o <<":">> \o to_string(n)], FALSE)
    \/ Tick

Spec == Init /\ [][Next]_vars

\* C1: a handle that script_push_entity made while its slot was in use is
\* reported invalid by script_check_entity once G_FreeEdict has freed the slot,
\* and stays so when G_Spawn takes the slot into use again
C1_FreedSlotInvalidates ==
    \A h \in AllHandles :
        (h.origin = "push" /\ h.wrapInuse /\ h.freed) => Stale(g_edicts, h)

\* a handle made while the slot was in use, whose slot was freed and is in use again
C1_Witness ==
    \E h \in AllHandles :
        /\ h.origin = "push" /\ h.wrapInuse /\ h.freed
        /\ g_edicts[h.ent].inuse
        /\ Stale(g_edicts, h)

\* C2: a handle made while its slot was free stores spawn_count - 1 and is
\* reported invalid at once, after G_Spawn reuses the slot, and after every
\* later free and reuse of the slot
C2_WrappedFreeInvalid ==
    \A h \in AllHandles :
        (h.origin = "push" /\ ~h.wrapInuse) =>
            /\ h.spawn_count = h.wrapGen - 1
            /\ Stale(g_edicts, h)

\* a handle made while the slot was free; since then the slot was reused, freed
\* and reused again
C2_Witness ==
    \E h \in AllHandles :
        /\ h.origin = "push" /\ ~h.wrapInuse /\ h.freed
        /\ g_edicts[h.ent].inuse
        /\ g_edicts[h.ent].spawn_count = h.wrapGen + 1

\* C3: in every step a handle that script_check_entity reports invalid is still
\* reported invalid afterwards, and a slot's spawn_count changes only by going
\* up by one, exactly in the steps in which the slot goes from in use to free
C3_InvalidForever ==
    [][ /\ \A h \in AllHandles : Stale(g_edicts, h) => Stale(g_edicts', h)
        /\ \A s \in Slots :
               IF g_edicts[s].inuse /\ ~g_edicts'[s].inuse
               THEN g_edicts'[s].spawn_count = g_edicts[s].spawn_count + 1
               ELSE g_edicts'[s].spawn_count = g_edicts[s].spawn_count ]_vars

\* valid() has just answered false for a handle whose slot was freed and is in
\* use again for another entity
C3_Witness ==
    /\ event.op = "valid" /\ event.res = "false"
    /\ \E h \in Accessible :
           /\ Stale(g_edicts, h) /\ h.freed
           /\ g_edicts[h.ent].inuse
           /\ g_edicts[h.ent].spawn_count > h.spawn_count

\* C4: a handle that passes script_check_entity, made by script_push_entity or
\* by the restore of a saved entry, refers to a slot that is in use
C4_ValidImpliesInUse ==
    \A h \in AllHandles : ~Stale(g_edicts, h) => g_edicts[h.ent].inuse

\* a handle kept in the variable table passes the check on a live slot while a
\* handle to a freed slot fails it
C4_Witness ==
    /\ \E h \in VarHandles : ~Stale(g_edicts, h) /\ h.ent > LastSpecial /\ ~h.freed
    /\ \E h \in ArgHandles : Stale(g_edicts, h) /\ ~g_edicts[h.ent].inuse

\* ------------------------------------------------------------------------
\* Script functions at work: func_script entities are used by the game and by
\* each other, and their functions call the entity member functions on the
\* handles they were given, which go stale when the entity is killed
\* ------------------------------------------------------------------------
NextScript ==
    \/ script_load(LevelScript)
    \/ HostSpawn(ScriptKind)
    \/ \E ent \in Slots, activator \in 1 .. maxclients :
           ~Running /\ HostUse(ent, 0, activator)
    \/ \E h \in Accessible : script_entity_get(h, "classname")
    \/ \E h \in Accessible, v \in Counts : script_entity_set(h, "count", v)
    \/ \E h \in Accessible, d \in Delays : script_entity_trigger(h, d)
    \/ \E h \in Accessible : script_entity_kill(h, -1)
    \/ \E h \in Accessible : script_entity_message(h, Greeting, -1)
    \/ \E h \in Accessible : script_entity_setstring(h)
    \/ \E h \in Accessible : script_entity_player(h)
    \/ \E h \in Accessible : script_entity_monster(h)
    \/ \E h \in Accessible : script_entity_valid(h)
    \/ ScriptReturn
    \/ ScriptError

SpecScript == Init /\ [][NextScript]_vars

\* a step in which a member function is called on handle h
MemberCall(h) ==
    \/ script_entity_get(h, "classname")
    \/ \E v \in Counts : script_entity_set(h, "count", v)
    \/ \E d \in Delays : script_entity_trigger(h, d)
    \/ script_entity_kill(h, -1)
    \/ script_entity_message(h, Greeting, -1)
    \/ script_entity_setstring(h)
    \/ script_entity_player(h)
    \/ script_entity_monster(h)

\* a step that does nothing to the entities but abort the running function
\* with the given error: no field is written, nothing is spawned, no callback
\* is invoked (a think function that called the script frees its helper once
\* the script is back)
AbortsWith(err) ==
    /\ event'.err = err
    /\ event'.use = NoUse
    /\ Len(callstack') = Len(callstack) - 1
    /\ num_edicts' = num_edicts
    /\ \A s \in Slots :
           \/ g_edicts'[s] = g_edicts[s]
           \/ Top.ret = "think" /\ s = Top.other /\ ~g_edicts'[s].inuse

\* C5: get, set, trigger, kill, message, setstring, player and monster called
\* with a stale handle raise "entity reference is no longer valid" and touch
\* no entity, spawn no helper and invoke no callback; valid called with a
\* stale handle returns false and raises nothing
C5_StaleHandleRaises ==
    [][ \A h \in Accessible :
            Stale(g_edicts, h) =>
                /\ MemberCall(h) => AbortsWith(Err.invalid)
                /\ script_entity_valid(h) =>
                       /\ event'.err = "" /\ event'.res = "false"
                       /\ UNCHANGED <<g_edicts, callstack>> ]_vars

\* a member function has just raised the error for a stale handle
C5_Witness ==
    /\ event.op \in {"get", "set", "trigger", "kill", "message", "setstring",
                     "player", "monster"}
    /\ event.err = Err.invalid

\* the self of the innermost trigger-context frame
FrameSelf == script_triggerstack[LuaLen(script_triggerstack)].self

\* a helper entity of the given class has been spawned for target ent
Scheduled(classname, ent) ==
    /\ event'.err = "" /\ event'.use = NoUse
    /\ UNCHANGED callstack
    /\ \E s \in Slots :
           /\ ~g_edicts[s].inuse /\ g_edicts'[s].inuse
           /\ g_edicts'[s].classname = classname
           /\ g_edicts'[s].target_ent = ent


\* C8 as stated: trigger on any handle whose entity is the self of the current
\* frame raises the self-trigger error when the delay is absent or <= 0, and
\* spawns a DelayedTrigger helper when the delay is > 0; the use callback is
\* not invoked in either case
C8_AnyHandle ==
    [][ \A h \in Accessible, d \in Delays :
            (h.ent = FrameSelf /\ script_entity_trigger(h, d)) =>
                IF d <= 0 THEN AbortsWith(Err.self_trigger)
                ELSE Scheduled("DelayedTrigger", h.ent) ]_vars

\* C8 for handles that pass script_check_entity; a stale handle to the slot
\* of the current self raises "entity reference is no longer valid" whatever
\* the delay
C8_SelfTriggerGuard ==
    [][ \A h \in Accessible, d \in Delays :
            (h.ent = FrameSelf /\ script_entity_trigger(h, d)) =>
                IF Stale(g_edicts, h) THEN AbortsWith(Err.invalid)
                ELSE IF d <= 0 THEN AbortsWith(Err.self_trigger)
                ELSE Scheduled("DelayedTrigger", h.ent) ]_vars

\* the running function has just triggered its own entity with a delay
C8_Witness ==
    /\ Running
    /\ event.op = "trigger" /\ event.res = "scheduled"
    /\ \E s \in Slots :
           /\ g_edicts[s].inuse /\ g_edicts[s].classname = "DelayedTrigger"
           /\ g_edicts[s].target_ent = FrameSelf
           /\ g_edicts[s].nextthink > level_time

\* ------------------------------------------------------------------------
\* Trigger context: func_script entities whose function name is bound to a
\* function, to a table or to nothing are used by the game and trigger each
\* other; their functions return, raise errors and kill entities
\* ------------------------------------------------------------------------
NextContext ==
    \/ \E outcome \in LoadOutcomes : script_load(outcome)
    \/ \E f \in FuncNames : HostSpawn([ScriptKind EXCEPT !.script_function = f])
    \/ \E ent \in Slots, other \in Slots \ (0 .. LastSpecial), activator \in 1 .. maxclients :
           ~Running /\ HostUse(ent, other, activator)
    \/ \E h \in Accessible : script_entity_trigger(h, -1)
    \/ \E h \in Accessible : script_entity_kill(h, -1)
    \/ ScriptReturn
    \/ ScriptError

SpecContext == Init /\ [][NextContext]_vars

\* the trigger-context frame func_script_use pushes for call-stack entry i
FrameOf(i) == [self |-> callstack[i].self, activator |-> callstack[i].activator]

\* C6: the trigger-context frames nest like the running functions: frame i
\* holds the self and activator of the i-th function still running, so the
\* top frame is the innermost one, during a nested function and again after
\* it has returned; each function got a self handle for its own entity; and
\* a trigger issued by a function passes that function's self and activator
\* to the target's use callback
C6_FramesNest ==
    /\ LuaLen(script_triggerstack) = Len(callstack)
    /\ \A i \in 1 .. Len(callstack) :
           /\ script_triggerstack[i] = FrameOf(i)
           /\ callstack[i].args[1].ent = callstack[i].self
           /\ callstack[i].args[1].wrapInuse
           /\ callstack[i].args[1].spawn_count = callstack[i].args[1].wrapGen
    /\ (event.op = "trigger" /\ event.res = "called") =>
           /\ Len(callstack) >= 2
           /\ event.use = UseOf(Top.self, callstack[Len(callstack) - 1].self,
                                callstack[Len(callstack) - 1].activator)
           /\ Top.activator = callstack[Len(callstack) - 1].activator

\* a triggered function has just returned into the function that triggered
\* it, and the top frame is that function's
C6_Witness ==
    /\ event.op = "return"
    /\ Len(callstack) = 1
    /\ script_triggerstack = <<FrameOf(1)>>

\* C7: every func_script_use leaves the trigger-context stack as it found it:
\* a frame is pushed only when the function is called, and when the function
\* is over, by a return or by an error, the stack is the one of its entry
C7_StackRestored ==
    [][ /\ Len(callstack') < Len(callstack) => script_triggerstack' = Top.entry
        /\ Len(callstack') > Len(callstack) =>
               /\ callstack'[Len(callstack')].entry = script_triggerstack
               /\ event'.res = "called"
               /\ Len(script_triggerstack') = Len(script_triggerstack) + 1
        /\ (event'.op \in {"use", "trigger"} /\ event'.use # NoUse
                /\ event'.res # "called") =>
               UNCHANGED <<script_triggerstack, callstack>> ]_vars

\* a triggered function has just ended with an error, inside the function
\* that triggered it
C7_Witness ==
    /\ event.res = "error"
    /\ Len(callstack) = 1
    /\ script_triggerstack = callstack[1].entry \o <<FrameOf(1)>>

\* ------------------------------------------------------------------------
\* Delayed actions: script functions schedule kills, triggers and messages,
\* look helpers up with find and write entity fields; the game frees and
\* spawns entities, time passes and the helpers think
\* ------------------------------------------------------------------------
NextDelay ==
    \/ script_load(LevelScript)
    \/ ~Running /\ HostSpawn(ScriptKind)
    \/ \E ed \in Slots : ~Running /\ HostFree(ed)
    \/ \E ent \in Slots, activator \in {maxclients, MaxEntities - 1} :
           /\ ~Running
           /\ g_edicts[activator].inuse /\ g_edicts[activator].think = "none"
           /\ HostUse(ent, IF activator <= maxclients THEN 0 ELSE activator, activator)
    \/ \E h \in Accessible, d \in {-1, 1} : script_entity_kill(h, d)
    \/ Running /\ script_entity_trigger(Top.args[1], 1)
    \/ \E h \in Accessible, d \in {-1, 1} : script_entity_message(h, Greeting, d)
    \/ script_find(<<"DelayedKill">>, "classname")
    \/ \E h \in Accessible, v \in Counts :
           /\ h.ent > LastSpecial
           /\ script_entity_set(h, "count", v)
    \/ ScriptReturn
    \/ \E e \in Slots : script_entity_kill_delay(e)
    \/ \E e \in Slots : script_entity_trigger_delay(e)
    \/ \E e \in Slots : script_entity_message_delay(e)
    \/ Tick

SpecDelay == Init /\ [][NextDelay]_vars

\* a step in which the think function of helper e runs
HelperThinks(e) ==
    \/ script_entity_kill_delay(e)
    \/ script_entity_trigger_delay(e)
    \/ script_entity_message_delay(e)

\* C9: when the helper of a delayed kill, trigger or message thinks and the
\* target slot has been freed since the action was scheduled (its spawn_count
\* is no longer the one of that moment), the step leaves the target slot and
\* every other slot alone, invokes no callback and frees the helper; when the
\* target is of the same generation the action is performed, and the helper
\* cannot think a second time
C9_DelayedActionSafe ==
    [][ \A e \in Slots :
            HelperThinks(e) =>
                LET t == g_edicts[e].target_ent
                IN  IF g_edicts[t].spawn_count # g_edicts[e].scheduled_for
                    THEN /\ \A s \in Slots \ {e} : g_edicts'[s] = g_edicts[s]
                         /\ event'.use = NoUse
                         /\ event'.res = "target no longer exists"
                         /\ ~g_edicts'[e].inuse
                    ELSE /\ \/ event'.res \in {"killed", "printed"}
                            \/ event'.use.ent = t
                         /\ ~g_edicts'[e].inuse \/ g_edicts'[e].nextthink = 0 ]_vars

\* ------------------------------------------------------------------------
\* Save and load: script functions write numbers, booleans, strings and
\* handles to the variable table, the save system takes a snapshot of it and,
\* after the level script has been loaded again, restores the snapshot
\* ------------------------------------------------------------------------

NextCodec ==
    \/ script_load(LevelScript)
    \/ ~Running /\ HostSpawn(ScriptKind)
    \/ \E ent \in Slots, activator \in 1 .. maxclients :
           ~Running /\ HostUse(ent, 0, activator)
    \/ \E h \in Accessible : script_entity_kill(h, -1)
    \/ \E k \in {<<"k">>, <<"k", NUL, "x">>},
          v \in {NilVal} \cup {NumVal(n) : n \in {-3, 12}}
                \cup {BoolVal(b) : b \in BOOLEAN}
                \cup {StrVal(str) : str \in {<<"a", ":", "b">>, <<"7">>, <<"a", NUL, "b">>}}
                \cup {UdVal(h) : h \in Accessible} :
           /\ DOMAIN script_vars \subseteq {k}
           /\ script_vars_set(StrVal(k), v)
    \/ ScriptReturn
    \/ script_get_variables(FALSE)
    \/ /\ saved # <<>>
       /\ script_vars = EmptyTable
       /\ script_set_variables(saved, FALSE)

SpecCodec == Init /\ [][NextCodec]_vars

\* r is an equivalent of value v: the same number, boolean or string, a valid
\* handle to the same slot, or an invalid handle
Equivalent(edicts, v, r) ==
    IF v.type = "userdata"
    THEN /\ r.type = "userdata"
         /\ IF Stale(edicts, v.ud) \/ ~edicts[v.ud.ent].inuse
            THEN Stale(edicts, r.ud)
            ELSE ~Stale(edicts, r.ud) /\ r.ud.ent = v.ud.ent
    ELSE r = v

\* C10: for every key k and value V a script has stored in the variable
\* table, V being an integer, a boolean, a string or a valid or invalid
\* handle, every restore into an empty table of every snapshot of {k: V},
\* taken and restored in the current pool state, holds an equivalent of V at k
C10_RoundTrip ==
    \A k \in DOMAIN script_vars :
        LET one == [x \in {k} |-> script_vars[k]]
        IN  \A m \in Snapshots(one, g_edicts) :
                \A r \in Restores(EmptyTable, m, g_edicts) :
                    /\ k \in DOMAIN r
                    /\ Equivalent(g_edicts, script_vars[k], r[k])


\* C11: a snapshot of the variable table saves a handle as "entity:<index>"
\* exactly when its slot is in use and the generation of the slot equals the
\* stamp of the handle at that time, and as "entity:-1" in every other case
C11_EntityEncoding ==
    [][ script_get_variables(FALSE) =>
            \A k \in DOMAIN script_vars :
                script_vars[k].type = "userdata" =>
                    LET h == script_vars[k].ud
                        live == /\ g_edicts[h.ent].inuse
                                /\ g_edicts[h.ent].spawn_count = h.spawn_count
                    IN  /\ CStr(k) \in DOMAIN saved'
                        /\ live <=> saved'[CStr(k)] =
                                        <<"e", "n", "t", "i", "t", "y", ":">> \o Decimal(h.ent)
                        /\ ~live <=> saved'[CStr(k)] = <<"e", "n", "t", "i", "t", "y", ":", "-", "1">> ]_vars

\* a snapshot holds "entity:-1" for a handle whose slot was freed and is in
\* use again, with the handle still in the variable table
C11_Witness ==
    \E k \in DOMAIN script_vars :
        /\ script_vars[k].type = "userdata"
        /\ script_vars[k].ud.freed
        /\ g_edicts[script_vars[k].ud.ent].inuse
        /\ CStr(k) \in DOMAIN saved
        /\ saved[CStr(k)] = <<"e", "n", "t", "i", "t", "y", ":", "-", "1">>

\* C12: a handle restored from an "entity:-1" entry refers to slot 0 with the
\* stamp -1 and fails script_check_entity in every state, slot 0 being never
\* freed
C12_RestoredInvalidStaysInvalid ==
    \A h \in AllHandles :
        h.origin = "restore" =>
            /\ h.ent = 0
            /\ h.spawn_count = -1
            /\ Stale(g_edicts, h)

\* ------------------------------------------------------------------------
\* Restore of saved entries: the save system hands script_set_variables
\* mappings whose texts are well formed or not, for either table
\* ------------------------------------------------------------------------
RestoreMappings ==
    {[k \in {key} |-> txt] :
        key \in {<<"k">>, <<"j">>},
        txt \in {Text.number \o <<":", "1", "2">>,
                 Text.boolean \o <<":">> \o Text.true,
                 Text.string \o <<":", "a", ":", "b">>,
                 <<"v", "e", "c", ":", "1">>,
                 <<"g">>,
                 <<":", "x">>,
                 Text.number \o <<":", "i", "n", "f">>,
                 Text.entity \o <<":", "0">>}}

NextRestore ==
    \/ event.op # "set_variables" /\ script_load(LevelScript)
    \/ \E m \in RestoreMappings, persistent \in BOOLEAN :
           event.op # "set_variables" /\ script_set_variables(m, persistent)

SpecRestore == Init /\ [][NextRestore]_vars


\* C13: script_set_variables decodes no value for an entry whose text has no
\* colon or an unknown type tag before its first colon, and does not insert
\* the entry: the table holds at that key what it held before
C13_MalformedNotInserted ==
    [][ \A m \in RestoreMappings, persistent \in BOOLEAN :
            script_set_variables(m, persistent) =>
                \A key \in DOMAIN m :
                    ( LET str == m[key]
                      IN  \/ \A i \in 1 .. Len(str) : str[i] # ":"
                          \/ \E i \in 1 .. Len(str) :
                                 /\ str[i] = ":"
                                 /\ \A j \in 1 .. (i - 1) : str[j] # ":"
                                 /\ SubSeq(str, 1, i - 1) \notin
                                        {Text.number, Text.boolean, Text.string, Text.entity} ) =>
                        LET old == TableOf(persistent)
                            new == IF persistent THEN script_persistent' ELSE script_vars'
                        IN  /\ key \in DOMAIN new <=> key \in DOMAIN old
                            /\ key \in DOMAIN old => new[key] = old[key] ]_vars

\* ------------------------------------------------------------------------
\* The variable tables: script functions write keys and values of every
\* type to script.vars and script.persistent
\* ------------------------------------------------------------------------
GateKeys == {StrVal(<<"k">>), StrVal(<<"j">>), NumVal(1)}

GateValues ==
    {NilVal, NumVal(7), BoolVal(FALSE), StrVal(<<"a">>), FunVal, [type |-> "table"]}
    \cup {UdVal(h) : h \in Accessible}

NextVars ==
    \/ script_load(LevelScript)
    \/ ~Running /\ HostSpawn(ScriptKind)
    \/ \E ent \in Slots, activator \in 1 .. maxclients :
           ~Running /\ HostUse(ent, 0, activator)
    \/ \E key \in GateKeys, v \in GateValues : script_vars_set(key, v)
    \/ \E key \in GateKeys, v \in GateValues : script_persistent_set(key, v)
    \/ ScriptReturn

SpecVars == Init /\ [][NextVars]_vars

\* C14: a write to script.vars with a key that is no string, or a value that
\* is not nil, a number, a boolean, a string or a handle, and a write to
\* script.persistent with a key that is no string, or a value that is not nil,
\* a number, a boolean or a string, raises an error and leaves both tables as
\* they were; any other write raises nothing and a read of the key then
\* yields the value written
C14_TypeGating ==
    [][ \A key \in GateKeys, v \in GateValues :
            /\ script_vars_set(key, v) =>
                   IF /\ key.type = "string"
                      /\ v.type \in {"nil", "number", "boolean", "string", "userdata"}
                   THEN /\ event'.err = ""
                        /\ RawGet(script_vars', key) = v
                        /\ UNCHANGED script_persistent
                   ELSE /\ event'.err # ""
                        /\ UNCHANGED <<script_vars, script_persistent>>
            /\ script_persistent_set(key, v) =>
                   IF /\ key.type = "string"
                      /\ v.type \in {"nil", "number", "boolean", "string"}
                   THEN /\ event'.err = ""
                        /\ RawGet(script_persistent', key) = v
                        /\ UNCHANGED script_vars
                   ELSE /\ event'.err # ""
                        /\ UNCHANGED <<script_vars, script_persistent>> ]_vars

\* a write of a handle to script.persistent has been refused while both
\* tables hold values written before, a handle among them
C14_Witness ==
    /\ event.op = "persistent_set"
    /\ event.err = Err.persistent_type
    /\ script_persistent_get(StrVal(<<"k">>)) = NumVal(7)
    /\ script_vars_get(StrVal(<<"j">>)).type = "userdata"


\* ------------------------------------------------------------------------
\* Loading: level scripts that define functions and tables, some of them
\* failing, and script functions that write to what the script defined
\* ------------------------------------------------------------------------
\* the level scripts of this context; each also defines the function f
\*   t = {b = {a = 5}}
\*   local inner = {}; t = {b = inner}; inner.c = {}
\*   u = false; u = 7
\*   f = function; f = nil
\*   f = nil; f = function
\*   script = 7
\*   u = 7
\*   local a = {}; local b = {x = a, y = a}; t = b
\*   local a = {}; a.a = a; t = a
LoadChunks ==
    LoadOutcomes \cup
    {Chunk(<<Global("f", FunVal), Local(1), SetField(1, "a", NumVal(5)), Local(2),
             SetField(2, "b", Loc(1)), Global("t", Loc(2))>>),
     Chunk(<<Global("f", FunVal), Local(1), Local(2), SetField(2, "b", Loc(1)),
             Global("t", Loc(2)), Local(3), SetField(1, "c", Loc(3))>>),
     Chunk(<<Global("f", FunVal), Global("u", BoolVal(FALSE)), Global("u", NumVal(7))>>),
     Chunk(<<Global("f", FunVal), Global("f", NilVal)>>),
     Chunk(<<Global("f", NilVal), Global("f", FunVal)>>),
     Chunk(<<Global("f", FunVal), Global("script", NumVal(7))>>),
     Chunk(<<Global("f", FunVal), Global("u", NumVal(7))>>),
     Chunk(<<Global("f", FunVal), Local(1), Local(2), SetField(2, "a", Loc(1)),
             SetField(2, "b", Loc(1)), Global("t", Loc(2))>>),
     Chunk(<<Global("f", FunVal), Local(1), SetField(1, "a", Loc(1)),
             Global("t", Loc(1))>>)}

\* the paths t.x, t.x.y and t.x.y.z a function writes to
FieldPaths == UNION {[1 .. n -> {"a", "b", "c"}] : n \in 1 .. 3}
WrittenValues == {NilVal, NumVal(7)}

NextLoad ==
    \/ \E chunk \in LoadChunks : event.res # "no return" /\ script_load(chunk)
    \/ ~Running /\ event.res # "no return" /\ HostSpawn(ScriptKind)
    \/ \E ent \in Slots, activator \in 1 .. maxclients :
           ~Running /\ event.res # "no return" /\ HostUse(ent, 0, activator)
    \/ \E name \in GlobalNames, v \in WrittenValues : script_global_assign(name, v)
    \/ \E keys \in FieldPaths, v \in WrittenValues : script_field_assign("t", keys, v)
    \/ \E id \in 1 .. 3, v \in WrittenValues : script_local_assign(id, "a", v)
    \/ ScriptReturn

SpecLoad == Init /\ [][NextLoad]_vars

\* statement i of the chunk writes the name 'script', or a global name that an
\* earlier statement of the chunk has bound to a value other than nil
WritesBound(chunk, i) ==
    /\ chunk.stmts[i].op = "global"
    /\ \/ chunk.stmts[i].name = "script"
       \/ \E j \in 1 .. (i - 1) :
              /\ chunk.stmts[j].op = "global"
              /\ chunk.stmts[j].name = chunk.stmts[i].name
              /\ chunk.stmts[j].v.type # "nil"

\* C15: when a statement of the chunk being loaded writes a global name that
\* is bound already (to false as much as to any other value) or the name
\* 'script', the write fails, so the load does, and the name stays bound to
\* what it was bound to: the API table for 'script', the value of the
\* earlier statement otherwise
C15_BoundNamesStay ==
    [][ \A chunk \in LoadChunks :
            script_load(chunk) =>
                \A i \in 1 .. Len(chunk.stmts) :
                    ( /\ WritesBound(chunk, i)
                      /\ \A j \in 1 .. (i - 1) :
                             ~WritesBound(chunk, j) /\ chunk.stmts[j].op # "error" ) =>
                        LET name == chunk.stmts[i].name
                        IN  /\ ~script_loaded'
                            /\ IF name = "script"
                               THEN script_globals'[name] = ApiVal
                               ELSE LET first ==
                                          chunk.stmts[CHOOSE j \in 1 .. Len(chunk.stmts) :
                                              /\ chunk.stmts[j].op = "global"
                                              /\ chunk.stmts[j].name = name
                                              /\ chunk.stmts[j].v.type # "nil"
                                              /\ \A x \in 1 .. (j - 1) :
                                                     ~(/\ chunk.stmts[x].op = "global"
                                                       /\ chunk.stmts[x].name = name
                                                       /\ chunk.stmts[x].v.type # "nil")].v
                                    IN  IF first.type = "local"
                                        THEN script_globals'[name].type = "table"
                                        ELSE script_globals'[name] = first ]_vars

\* a load has failed at the second write of u, which is still bound to false
C15_Witness ==
    /\ ~script_loaded
    /\ script_globals["u"] = BoolVal(FALSE)
    /\ script_globals["f"].type = "function"

\* C16: once a script is loaded, a script function that assigns a global name
\* raises the read-only error, and one that assigns a key, new or existing,
\* of a table it reaches from a global through any number of fields raises
\* the read-only error as well; neither changes a global or a table
C16_WritesFailAfterLoad ==
    [][ /\ \A name \in GlobalNames, v \in WrittenValues :
               script_global_assign(name, v) =>
                   /\ event'.err = Err.readonly
                   /\ UNCHANGED <<script_globals, lua_tables>>
        /\ \A keys \in FieldPaths, v \in WrittenValues :
               ( /\ script_field_assign("t", keys, v)
                 /\ Resolve(lua_tables, script_globals["t"],
                            SubSeq(keys, 1, Len(keys) - 1)).type = "table" ) =>
                   /\ event'.err = Err.readonly
                   /\ UNCHANGED <<script_globals, lua_tables>> ]_vars

LevelChunks ==
    {LevelScript, Chunk(<<Global("f", FunVal), Global("u", FunVal)>>),
     BrokenScript, FailingScript}

NextLevel ==
    \/ \E chunk \in LevelChunks : script_load(chunk)
    \/ ~Running /\ num_edicts <= LastSpecial + 1 /\ HostSpawn(ScriptKind)
    \/ \E ent \in Slots, activator \in 1 .. maxclients : ~Running /\ HostUse(ent, 0, activator)
    \/ \E v \in {StrVal(str) : str \in {<<>>, <<"a">>, <<"b">>, <<"a", "b">>, <<"b", "a">>}}
                \cup {NilVal} :
           script_entity_set(Top.args[1], "message", v)
    \/ \E k \in Keys, v \in {NilVal, NumVal(7)} : script_vars_set(StrVal(k), v)
    \/ \E k \in Keys, v \in {NilVal, NumVal(7)} : script_persistent_set(StrVal(k), v)
    \/ ScriptReturn

SpecLevel == Init /\ [][NextLevel]_vars

\* C18: every script_load, whether it succeeds or fails, leaves the ephemeral
\* variable table empty, the trigger stack empty and the string pool with
\* count 0 and the capacity it had; the globals of the previous script are
\* gone (a name is bound afterwards only if it is script or the new chunk
\* assigns it, and a file that does not parse binds nothing); the persistent
\* table is what it was
C18_LoadResets ==
    [][ \A chunk \in LevelChunks :
            script_load(chunk)
                => /\ script_vars' = EmptyTable
                   /\ script_triggerstack' = <<>>
                   /\ Len(script_stringpool_list') = 0
                   /\ script_stringpool_size' = script_stringpool_size
                   /\ \A name \in GlobalNames \ {"script"} :
                          script_globals'[name] # NilVal
                              => /\ chunk.parses
                                 /\ \E i \in 1 .. Len(chunk.stmts) :
                                        /\ chunk.stmts[i].op = "global"
                                        /\ chunk.stmts[i].name = name
                   /\ script_globals'["script"] = ApiVal
                   /\ script_persistent' = script_persistent ]_vars

\* a load has emptied a pool that had grown past its first capacity and a
\* variable table, and has dropped the global t of the script before it,
\* while the persistent table kept its entry
C18_Witness ==
    /\ event = NoEvent
    /\ script_vars = EmptyTable
    /\ script_stringpool_list = <<>>
    /\ script_stringpool_size > script_stringpool_starter
    /\ script_persistent # EmptyTable
    /\ script_loaded
    /\ script_globals["t"] = NilVal
    /\ script_globals["u"] = FunVal

\* ------------------------------------------------------------------------
\* Names that are not functions, and functions that fail
\* ------------------------------------------------------------------------
\* the global the func_script entity ent names is a function
BoundToFunction(ent) == script_globals[g_edicts[ent].script_function].type = "function"

\* C19: with a script loaded, a use of a func_script whose script_function is
\* unbound or bound to something that is no function (from the game or from a
\* running function's trigger) pushes no trigger-context frame and calls
\* nothing; an error raised in a called function ends at the lua_pcall of
\* its own func_script_use: that frame alone is removed, the caller goes on,
\* the script stays loaded with its globals; and a use of a func_script whose
\* name is a function calls it, whatever happened before
C19_BadNameAndErrors ==
    [][ /\ \A ent \in Slots, other \in Slots, activator \in Slots :
               (script_loaded /\ HostUse(ent, other, activator))
                   => IF BoundToFunction(ent)
                      THEN /\ Len(callstack') = Len(callstack) + 1
                           /\ callstack'[Len(callstack')].self = ent
                           /\ LuaLen(script_triggerstack') = LuaLen(script_triggerstack) + 1
                           /\ script_triggerstack'[LuaLen(script_triggerstack')]
                                  = [self |-> ent, activator |-> activator]
                      ELSE /\ callstack' = callstack
                           /\ script_triggerstack' = script_triggerstack
        /\ \A h \in AllHandles :
               (/\ script_loaded
                /\ script_entity_trigger(h, -1)
                /\ ~Stale(g_edicts, h)
                /\ g_edicts[h.ent].use = "func_script_use"
                /\ ~BoundToFunction(h.ent))
                   => /\ callstack' = callstack
                      /\ script_triggerstack' = script_triggerstack
        /\ ScriptError
               => /\ Len(callstack') = Len(callstack) - 1
                  /\ \A i \in 1 .. Len(callstack') :
                         /\ callstack'[i].self = callstack[i].self
                         /\ callstack'[i].n = callstack[i].n
                  /\ LuaLen(script_triggerstack') = LuaLen(script_triggerstack) - 1
                  /\ script_loaded' = script_loaded
                  /\ script_globals' = script_globals ]_vars

\* a function called by the trigger of a running function has raised an
\* error, and the function that triggered it is still running
C19_Witness ==
    /\ script_loaded
    /\ event.op = "function" /\ event.res = "error"
    /\ Len(callstack) = 1
    /\ LuaLen(script_triggerstack) = 1

\* C20: within one level, any two calls of script_stringpool_add with equal
\* text returned the same pointer and any two calls with different text
\* returned different pointers, in whatever order the texts were added
C20_Interning ==
    \A a \in interned, b \in interned : (a.str = b.str) <=> (a.ref = b.ref)

\* the last call returned a pointer handed out before, from a pool that has
\* grown past its first capacity and whose order is not the order of insertion
C20_Witness ==
    /\ Running
    /\ event.op = "set" /\ event.res = "written"
    /\ Cardinality(interned) >= 3
    /\ script_stringpool_size > script_stringpool_starter
    /\ \E i \in 1 .. Len(script_stringpool_list) : script_stringpool_list[i].ptr # i
    /\ g_edicts[Top.self].message # NULL
    /\ g_edicts[Top.self].message < Len(script_stringpool_list)

\* C21: a load leaves no global bound to a number, a boolean, a string or a
\* userdata: apart from the API table at script, every name is unbound or
\* bound to a function or a table
C21_OnlyFunctionsAndTables ==
    [][ \A chunk \in LoadChunks :
            script_load(chunk) =>
                \A name \in GlobalNames \ {"script"} :
                    script_globals'[name].type \in {"nil", "function", "table"} ]_vars

\* ------------------------------------------------------------------------
\* Searching: entities are spawned and freed, the running function gives
\* them messages and searches by message, by class name and by count
\* ------------------------------------------------------------------------
NextFind ==
    \/ ~script_loaded /\ script_load(LevelScript)
    \/ ~Running /\ HostSpawn(ScriptKind)
    \/ \E ed \in Slots : ~Running /\ g_edicts[ed].spawn_count = 0 /\ HostFree(ed)
    \/ \E ent \in Slots, activator \in 1 .. maxclients : ~Running /\ HostUse(ent, 0, activator)
    \/ \E v \in {StrVal(<<"a">>), StrVal(<<"A">>), NilVal} :
           script_entity_set(Top.args[1], "message", v)
    \/ \E value \in {<<"a">>, <<"A">>, <<"func_script">>, <<"freed">>},
          key \in {"classname", "message", "count"} : script_find(value, key)
    \/ Running /\ script_pick(Top.found)
    \/ ScriptReturn

SpecFind == Init /\ [][NextFind]_vars

\* C22: find(value, key) with the key of a string field returns a list that
\* holds, in increasing slot order, one handle for each slot from 1 on that
\* is in use and whose field is not null and is the value up to the case of
\* its letters, and for no other slot; every handle of the list is valid when
\* find returns; with the key of a field that is no string, find raises an
\* error and the function gets no list
C22_FindReturnsMatches ==
    [][ \A value \in {<<"a">>, <<"A">>, <<"func_script">>, <<"freed">>},
           key \in {"classname", "message", "count"} :
            script_find(value, key) =>
                IF key = "count"
                THEN /\ event'.res = "error"
                     /\ Len(callstack') = Len(callstack) - 1
                ELSE LET list == callstack'[Len(callstack')].found
                         text(e) ==
                             IF key = "classname" THEN <<g_edicts[e].classname>>
                             ELSE LET refs == {r \in interned : r.ref = g_edicts[e].message}
                                  IN  IF refs = {} THEN <<>> ELSE (CHOOSE r \in refs : TRUE).str
                         same(a, b) ==
                             /\ Len(a) = Len(b)
                             /\ \A i \in 1 .. Len(a) : a[i] = b[i] \/ {a[i], b[i]} = {"a", "A"}
                         match == {e \in 1 .. (num_edicts - 1) :
                                      /\ g_edicts[e].inuse
                                      /\ key = "message" => g_edicts[e].message # NULL
                                      /\ same(text(e), value)}
                     IN  /\ Len(callstack') = Len(callstack)
                         /\ {list[i].ent : i \in 1 .. Len(list)} = match
                         /\ \A i \in 1 .. Len(list), j \in 1 .. Len(list) :
                                i < j => list[i].ent < list[j].ent
                         /\ \A i \in 1 .. Len(list) : ~Stale(g_edicts', list[i]) ]_vars

\* find by message has just returned two entities, one whose message differs
\* from the value in case, while another entity has no message
C22_Witness ==
    /\ Running
    /\ event.op = "find" /\ event.res = "found"
    /\ Len(Top.found) = 2
    /\ g_edicts[Top.found[1].ent].message # g_edicts[Top.found[2].ent].message
    /\ g_edicts[Top.found[1].ent].message # NULL
    /\ \E e \in 1 .. (num_edicts - 1) : g_edicts[e].inuse /\ g_edicts[e].message = NULL

C24_ActivatorNotAliased ==
    [][ \A e \in Slots :
            (script_entity_trigger_delay(e) /\ event'.res = "called") =>
                LET a == g_edicts[e].activator
                    h == callstack'[Len(callstack')].args[3]
                IN  \/ Stale(g_edicts', h)
                    \/ /\ h.ent = a
                       /\ g_edicts[a].inuse
                       /\ g_edicts[a].spawn_count = g_edicts[e].activator_for ]_vars

\* C25: when the use call made by a delayed-trigger helper returns, the
\* G_FreeEdict(self) that ends the think function frees nothing but that
\* helper: a slot that goes out of use in that step is the slot of the helper
\* and still holds the generation the helper had when it fired
C25_HelperFreesOnlyItself ==
    [][ (Running /\ Top.ret = "think" /\ Len(callstack') < Len(callstack)) =>
            \A e \in Slots :
                (g_edicts[e].inuse /\ ~g_edicts'[e].inuse) =>
                    /\ e = Top.other
                    /\ g_edicts[e].spawn_count = Top.args[2].spawn_count ]_vars


\* C26: no func_script entity is re-entered: in every reachable state the
\* frames of the trigger-context stack have pairwise different 'self' entities
C26_NoReentry ==
    \A i, j \in 1 .. LuaLen(script_triggerstack) :
        i # j => script_triggerstack[i].self # script_triggerstack[j].self


\* C27: script_table_readonly with recursive set returns for every table a
\* level script can build, a table that contains itself and a table reached
\* through two fields included: the load of a chunk that binds such a table
\* to a global name comes back
C27_ReadonlyTerminates ==
    [][ \A chunk \in LoadChunks :
            script_load(chunk) => Loaded(chunk).returns ]_vars


\* C28: once a script is loaded, what is read through a global that is bound
\* to a table stays what it was: no step of a running script function, a
\* write through a local of the chunk that holds the table included, changes
\* the value found at t.x, t.x.y or t.x.y.z
C28_GlobalTablesFrozen ==
    [][ Running =>
            \A keys \in FieldPaths :
                Resolve(lua_tables', script_globals'["t"], keys)
                    = Resolve(lua_tables, script_globals["t"], keys) ]_vars


\* C29: for every entry of the mapping script_set_variables pushes exactly
\* one decoded value and stores it under the key of the entry in the selected
\* table, leaving the other table as it is; so it does for an entry tagged
\* 'number' whose text is no numeral (the text of an infinity)
C29_OneValuePerEntry ==
    [][ \A m \in RestoreMappings, persistent \in BOOLEAN :
            script_set_variables(m, persistent) =>
                LET old == TableOf(~persistent)
                    new == IF persistent THEN script_persistent' ELSE script_vars'
                    other == IF persistent THEN script_vars' ELSE script_persistent'
                IN  /\ event' = NoEvent
                    /\ other = old
                    /\ \A key \in DOMAIN m :
                           /\ CStr(key) \in DOMAIN new
                           /\ \E stamp \in {-1, 0} :
                                  new[CStr(key)] = DecodeValue(g_edicts, m[key], stamp) ]_vars


C31_ImmediateKillDeletes ==
    [][ \A h \in Accessible :
            ( /\ script_entity_kill(h, -1)
              /\ ~Stale(g_edicts, h)
              /\ g_edicts[h.ent].svflags # "player" ) =>
                /\ ~g_edicts'[h.ent].inuse
                /\ \A h2 \in Accessible : h2.ent = h.ent => Stale(g_edicts', h2) ]_vars


\* C32: a restore into the persistent table clears it: when
\* script_set_variables has put the mapping m into script_persistent, the
\* keys of the table are the keys of m and no others
C32_RestoreClearsPersistent ==
    [][ \A m \in RestoreMappings :
            (script_set_variables(m, TRUE) /\ event' = NoEvent) =>
                DOMAIN script_persistent' = {CStr(key) : key \in DOMAIN m} ]_vars


\* C33: the persistent table holds no entity handle, whatever mappings have
\* been restored into it
C33_NoHandleInPersistent ==
    \A key \in DOMAIN script_persistent : script_persistent[key].type # "userdata"


\* C34: pick returns nil exactly when the list is empty, and for a list of
\* n >= 1 elements what it can return is every one of the n elements, the
\* last one included, and nothing else
C34_PickAnyElement ==
    [][ (Running /\ script_pick(Top.found)) =>
            LET list == Top.found
                n == Len(list)
            IN  /\ event'.res = "nil" <=> n = 0
                /\ n >= 1 => {list[1 + r] : r \in irandom(n - 1)}
                                 = {list[i] : i \in 1 .. n} ]_vars

\* ------------------------------------------------------------------------
\* The entity pool: the game spawns and frees entities while level.time runs
\* past the first two seconds, in steps shorter and longer than the time a
\* freed slot is kept from reuse
\* ------------------------------------------------------------------------
NextPool ==
    \/ HostSpawn(ScriptKind)
    \/ \E ed \in Slots : HostFree(ed)
    \/ \E ms \in {ReuseMs - 200, EarlyMs} : G_RunFrames(ms)

SpecPool == Init /\ [][NextPool]_vars

\* C35: G_Spawn returns only a slot that was not in use when it was called,
\* and marks it in use; the despawn bookmark, when valid, designates a slot
\* that is not in use; and from level.time 2 s on the slot G_Spawn returns was
\* not freed 500 ms ago or less
C35_SpawnTakesFreeSlot ==
    [][ /\ despawn_valid' => ~g_edicts'[despawn_pos'].inuse
        /\ HostSpawn(ScriptKind) =>
               LET p == G_Spawn(Pool, level_time)
               IN  /\ ~g_edicts[p.e].inuse
                   /\ g_edicts'[p.e].inuse
                   /\ (level_time >= EarlyMs /\ g_edicts[p.e].classname = "freed") =>
                          level_time - g_edicts[p.e].freetime > ReuseMs ]_vars

\* a slot freed after the first two seconds is in use again, while another
\* slot is free and bookmarked
C35_Witness ==
    /\ level_time >= EarlyMs
    /\ despawn_valid
    /\ \E s \in Slots : /\ g_edicts[s].inuse
                        /\ g_edicts[s].spawn_count >= 1
                        /\ g_edicts[s].freetime >= EarlyMs

\* C36: G_Spawn grows the entity list, or fails for want of room to grow it,
\* only when no slot below num_edicts is free and eligible for reuse, that
\* is freed more than 500 ms ago, or free at all while level.time is under
\* 2 s: the bookmarks skip no freed slot once it is eligible
C36_GrowsOnlyWhenFull ==
    LET p == G_Spawn(Pool, level_time)
    IN  (~p.ok \/ p.num_edicts > num_edicts) =>
            \A s \in 0 .. (num_edicts - 1) :
                ~ ( /\ ~g_edicts[s].inuse
                    /\ (level_time < EarlyMs
                            \/ level_time - g_edicts[s].freetime > ReuseMs) )

\* C37: the string pool holds no more entries than its capacity, and its
\* entries are in strictly increasing strcmp order, hence pairwise distinct
C37_PoolSorted ==
    /\ Len(script_stringpool_list) <= script_stringpool_size
    /\ \A i \in 1 .. Len(script_stringpool_list), j \in 1 .. Len(script_stringpool_list) :
           i < j => strcmp(script_stringpool_list[i].str, script_stringpool_list[j].str) < 0

\* the pool has grown past its first capacity, is full, and its last
\* addition was sorted in before an older entry
C37_Witness ==
    /\ script_stringpool_size > script_stringpool_starter
    /\ Len(script_stringpool_list) = script_stringpool_size
    /\ \E i \in 1 .. Len(script_stringpool_list) :
           /\ script_stringpool_list[i].ptr = Len(script_stringpool_list)
           /\ i < Len(script_stringpool_list)

\* C38: every entity handle, whether script_push_entity or the branch of
\* script_set_variables for a negative index made it, was allocated with a
\* block at least as large as struct script_ud_ent_t
C38_HandleStorage ==
    \A h \in AllHandles : h.size >= sizeof_script_ud_ent_t

\* C39: script_set_variables returns, and returns with the Lua stack at the
\* height it was entered with, whatever the texts of the mapping
C39_StackBalanced ==
    [][ \A m \in RestoreMappings, persistent \in BOOLEAN :
            script_set_variables(m, persistent) =>
                /\ event'.res # "no return"
                /\ script_set_variables_top(m) = 0 ]_vars

====
